---- MODULE Spec2Model ----
(***************************************************************************)
(* Model of the cli-utils applier: Applier.Run (pkg/apply/applier.go), the *)
(* task queue it builds, and the taskrunner event loop (baseRunner.run)    *)
(* that multiplexes task results, status observations and cancellation.    *)
(***************************************************************************)
EXTENDS Integers, Sequences, FiniteSets, TLC

\* Number of observations the status poller may deliver in one run.
MaxPolls == 2

\* Number of poll cycles the polling engine runs in one Poll.
MaxCycles == 3

\* Longest list of statuses a fakeStatusReader is scripted with.
MaxScript == 3

\* Longest namespace and name an ObjMetadata is created from.
MaxLen == 2

VARIABLES
    \* ---- inputs of one run
    wait,            \* a.StatusOptions.wait
    NoPrune,         \* a.NoPrune
    objects,         \* the infos a.ApplyOptions.GetObjects() returns
    getObjectsErr,   \* the error a.ApplyOptions.GetObjects() returns
    groupingObjErr,  \* the error prune.CreateGroupingObj returns
    ctxCancelled,    \* the caller's ctx has been cancelled
    \* ---- Applier.Run goroutine
    apc,             \* position of the goroutine of Applier.Run
    infos,           \* result of readAndPrepareObjects
    identifiers,     \* infosToObjMetas(infos)
    taskQueue,       \* the buffered channel of tasks (what is left in it)
    eventChannel,    \* every event received from the output channel, in order
    closed,          \* number of close(eventChannel) calls executed
    sentOnClosed,    \* some worker sent on eventChannel after it was closed
    \* ---- baseRunner.run
    currentTask, abort, abortReason, doneCh, runErr, collector,
    taskChannel,     \* senders blocked on the unbuffered taskChannel
    statusEvent,     \* the observation the loop has taken and is handling
    \* ---- task workers
    wst,             \* per task: idle / running / done (result received)
    applied,         \* ApplyItem events emitted by the apply task
    pruned,          \* PruneItem events emitted by the prune task
    token,           \* WaitTask.token still holds its single item
    timer,           \* WaitTask timer: none / armed / fired / stopped
    \* ---- status poller
    pst,             \* idle / polling / stopping / closed; nil: no status channel
    pollPos,         \* next identifier visited by the poller
    polls,           \* observations delivered so far
    closedReads,     \* the loop has received from the closed status channel
    statusCtxCancelled,
    \* ---- history
    started,         \* ids of the tasks started, in order
    received,        \* the TaskResults the loop has received, in order
    tokenTaker,      \* who took the wait task's token
    cancelInWait,    \* ctx was cancelled while the wait task was in flight
    observed,        \* the observations the loop received and did not ignore
    pollErrInWait,   \* a poller Error was handled while the wait task was current
    metInWait,       \* line 187 evaluated to true for the in-flight wait
    metBeforeTimeout,\* ... and the timer had not claimed the result by then
    \* ---- PollerEngine.Poll with the fakes of the engine's test
    ppc,                  \* position of the engine's goroutine
    pollIdentifiers,      \* identifiers passed to Poll
    pollUntilCancelled,   \* Options.PollUntilCancelled
    pollCtxCancelled,     \* the ctx passed to Poll has been cancelled
    resourceStatuses,     \* fakeStatusReader.resourceStatuses, by kind
    resourceStatusCount,  \* fakeStatusReader.resourceStatusCount, by kind
    statuses,             \* fakeAggregator.statuses, by position of the identifier
    previous,             \* the status last reported for each identifier
    visit,                \* position of the identifier visited next in the cycle
    cycles,               \* poll cycles started
    pollStream,           \* the events the test has received from Poll's channel
    visits,               \* history: the status reads, in order
    \* ---- prune.ObjMetadata: create, String, parse
    idpc,                 \* position of the conversion
    idIn,                 \* namespace, name, group and kind given to createObjMetadata
    idObj,                \* result of createObjMetadata
    idStr,                \* idObj.String()
    idParsed,             \* result of parseObjMetadata(idStr)
    idShort               \* result of parseObjMetadata on the first three fields of idStr

vars == << wait, NoPrune, objects, getObjectsErr, groupingObjErr, ctxCancelled, apc, infos, identifiers,
           taskQueue, eventChannel, closed, sentOnClosed, currentTask, abort,
           abortReason, doneCh, runErr, collector, taskChannel, statusEvent, wst,
           applied, pruned, token, timer, pst, pollPos, polls, closedReads,
           statusCtxCancelled, started, received, tokenTaker, cancelInWait,
           observed, pollErrInWait, metInWait, metBeforeTimeout,
           ppc, pollIdentifiers, pollUntilCancelled, pollCtxCancelled,
           resourceStatuses, resourceStatusCount, statuses, previous, visit,
           cycles, pollStream, visits,
           idpc, idIn, idObj, idStr, idParsed, idShort >>

-----------------------------------------------------------------------------
(* Errors *)

Nil == [type |-> "nil", message |-> ""]
timeoutError == [type |-> "timeoutError", message |-> "timeout waiting for resources"]
applyError == [type |-> "applyError", message |-> "apply failed"]
pruneError == [type |-> "pruneError", message |-> "prune failed"]
pollerError == [type |-> "pollerError", message |-> "status reader failed"]
NoGroupingObjError == [type |-> "NoGroupingObjError", message |-> "no grouping object"]
\* prune.MultipleGroupingObjError{GroupingObjectTemplates: gots}
MultipleGroupingObjError(gots) ==
    [type |-> "MultipleGroupingObjError", message |-> "multiple grouping objects",
     GroupingObjectTemplates |-> gots]
\* what GetObjects and CreateGroupingObj fail with
readError == [type |-> "errorString", message |-> "cannot read the resources"]
groupingObjError == [type |-> "errorString", message |-> "cannot create the grouping object"]
namespaceError == [type |-> "errorString", message |-> "objects have differing namespaces"]

\* fmt.Errorf("polling for status failed: %v", statusEvent.Error)
pollingFailed(e) == [type |-> "errorString", message |-> "polling for status failed: " \o e.message]

\* errors.WrapPrefix(err, "error reading resources", 1)
WrapPrefix(e, prefix) ==
    [type |-> "goErrors", message |-> prefix \o ": " \o e.message, Err |-> e]

IsTimeoutError(err) == err.type = "timeoutError"

-----------------------------------------------------------------------------
(* Inputs *)

GroupingTemplate(n) ==
    [Name |-> n, Namespace |-> "default", Kind |-> "ConfigMap", grouping |-> TRUE,
     namespaced |-> TRUE]
Resource(n) ==
    [Name |-> n, Namespace |-> "default", Kind |-> "Deployment", grouping |-> FALSE,
     namespaced |-> TRUE]
\* a namespaced resource of another namespace
ResourceIn(n, ns) ==
    [Name |-> n, Namespace |-> ns, Kind |-> "Deployment", grouping |-> FALSE,
     namespaced |-> TRUE]
\* a cluster-scoped resource: info.Namespaced() is false
ClusterResource(n) ==
    [Name |-> n, Namespace |-> "", Kind |-> "ClusterRole", grouping |-> FALSE,
     namespaced |-> FALSE]

\* a cluster-scoped resource next to a namespaced one
MixedScopes == << GroupingTemplate("inv"), ClusterResource("foo"), Resource("bar") >>

Inputs ==
    { << Resource("foo"), GroupingTemplate("inv") >>,
      << GroupingTemplate("inv") >>,
      << Resource("foo") >>,
      << GroupingTemplate("inv"), Resource("foo"), GroupingTemplate("inv2") >>,
      MixedScopes,
      << GroupingTemplate("inv"), Resource("foo"), ResourceIn("bar", "other") >> }

splitInfos(in) ==
    [resources |-> SelectSeq(in, LAMBDA i : ~i.grouping),
     gots      |-> SelectSeq(in, LAMBDA i : i.grouping)]

\* metav1.NamespaceNone
NamespaceNone == ""

\* the loop of validateNamespace from the k-th info on
RECURSIVE validateNamespaceFrom(_, _, _)
validateNamespaceFrom(rs, k, currentNamespace) ==
    IF k > Len(rs) THEN TRUE
    ELSE IF rs[k].namespaced
      THEN LET current == IF currentNamespace = NamespaceNone
                            THEN rs[k].Namespace
                            ELSE currentNamespace
           IN IF current # rs[k].Namespace
                THEN FALSE
                ELSE validateNamespaceFrom(rs, k + 1, current)
      ELSE validateNamespaceFrom(rs, k + 1, currentNamespace)

validateNamespace(rs) == validateNamespaceFrom(rs, 1, NamespaceNone)

\* the kinds and names of the model, in ascending order
KindOrder == << "ClusterRole", "ConfigMap", "Deployment", "Service" >>
NameOrder == << "bar", "foo", "inv", "inv2", "old" >>

Rank(order, x) == CHOOSE k \in 1..Len(order) : order[k] = x

\* ResourceInfos.Less: the order sort.Sort puts the resources in
Less(a, b) ==
    \/ Rank(KindOrder, a.Kind) < Rank(KindOrder, b.Kind)
    \/ a.Kind = b.Kind /\ Rank(NameOrder, a.Name) < Rank(NameOrder, b.Name)

\* prune.CreateGroupingObj: the grouping object made from the template, which
\* records the resources of this apply
CreateGroupingObj(got, resources, err) ==
    IF err # Nil
      THEN [obj |-> got, err |-> err]
      ELSE [obj |-> [Name |-> got.Name, Namespace |-> got.Namespace, Kind |-> got.Kind,
                     grouping |-> TRUE, namespaced |-> got.namespaced,
                     inventory |-> [k \in 1..Len(resources) |->
                                       [Kind |-> resources[k].Kind,
                                        Name |-> resources[k].Name,
                                        Namespace |-> resources[k].Namespace]]],
            err |-> Nil]

\* readAndPrepareObjects that uses the first template when there are several
readAndPrepareObjectsFirstTemplate(in, gerr, cerr) ==
    IF gerr # Nil THEN [infos |-> << >>, err |-> gerr]
    ELSE
    LET s == splitInfos(in) IN
    IF Len(s.gots) = 0 THEN [infos |-> << >>, err |-> NoGroupingObjError]
    ELSE LET groupingObject == CreateGroupingObj(s.gots[1], s.resources, cerr) IN
         IF groupingObject.err # Nil THEN [infos |-> << >>, err |-> groupingObject.err]
         ELSE LET sorted == SortSeq(s.resources, Less) IN
              IF ~validateNamespace(sorted) THEN [infos |-> << >>, err |-> namespaceError]
              ELSE [infos |-> << groupingObject.obj >> \o sorted, err |-> Nil]

\* in: the infos and gerr: the error of GetObjects; cerr: the error of CreateGroupingObj
readAndPrepareObjects(in, gerr, cerr) ==
    IF gerr # Nil THEN [infos |-> << >>, err |-> gerr]
    ELSE
    LET s == splitInfos(in) IN
    IF Len(s.gots) = 0 THEN [infos |-> << >>, err |-> NoGroupingObjError]
    ELSE IF Len(s.gots) > 1 THEN [infos |-> << >>, err |-> MultipleGroupingObjError(s.gots)]
    ELSE LET groupingObject == CreateGroupingObj(s.gots[1], s.resources, cerr) IN
         IF groupingObject.err # Nil THEN [infos |-> << >>, err |-> groupingObject.err]
         ELSE LET sorted == SortSeq(s.resources, Less) IN
              IF ~validateNamespace(sorted) THEN [infos |-> << >>, err |-> namespaceError]
              ELSE [infos |-> << groupingObject.obj >> \o sorted, err |-> Nil]

ObjMetadata(i) == [Kind |-> i.Kind, Name |-> i.Name, Namespace |-> i.Namespace]

infosToObjMetas(is) == [k \in 1..Len(is) |-> ObjMetadata(is[k])]

-----------------------------------------------------------------------------
(* Events *)

NoId == [Kind |-> "", Name |-> "", Namespace |-> ""]

Event(t, sub, id, st, err, w) ==
    [Type |-> t, EventType |-> sub, Identifier |-> id, Status |-> st,
     Err |-> err, writer |-> w]

InitEvent == Event("InitType", "", NoId, "", Nil, "applier")
ErrorEvent(e) == Event("ErrorType", "", NoId, "", e, "applier")
ApplyCompletedEvent == Event("ApplyType", "ApplyEventCompleted", NoId, "", Nil, "task")
StatusCompletedEvent == Event("StatusType", "CompletedEvent", NoId, "", Nil, "task")
PruneCompletedEvent == Event("PruneType", "PruneEventCompleted", NoId, "", Nil, "task")
ApplyItemEvent(id) == Event("ApplyType", "ApplyEventResourceUpdate", id, "", Nil, "adapter")
PruneItemEvent(id) == Event("PruneType", "PruneEventResourceUpdate", id, "", Nil, "task")
StatusEvent(se) == Event("StatusType", se.EventType, se.Identifier, se.Status, se.Error, "runner")

\* observations on the status channel
ResourceUpdate(id, st) ==
    [EventType |-> "ResourceUpdateEvent", Identifier |-> id, Status |-> st, Error |-> Nil]
PollError == [EventType |-> "ErrorEvent", Identifier |-> NoId, Status |-> "", Error |-> pollerError]
PollAborted == [EventType |-> "AbortedEvent", Identifier |-> NoId, Status |-> "", Error |-> Nil]
PollCompleted == [EventType |-> "CompletedEvent", Identifier |-> NoId, Status |-> "", Error |-> Nil]

\* the zero value of pollevent.Event
NoObservation == [EventType |-> "", Identifier |-> NoId, Status |-> "", Error |-> Nil]

PollStatuses == {"InProgress", "Current"}

\* objects recorded by the previous grouping object and absent from this apply
PruneCandidates == << [Kind |-> "Deployment", Name |-> "old", Namespace |-> "default"] >>

-----------------------------------------------------------------------------
(* Task queue *)

NoTask ==
    [id |-> 0, kind |-> "nil", Event |-> InitEvent, Objects |-> << >>,
     Identifiers |-> << >>, Condition |-> ""]

Task(k, ev, objs, ids, cond) ==
    [id |-> 0, kind |-> k, Event |-> ev, Objects |-> objs, Identifiers |-> ids,
     Condition |-> cond]

Numbered(ts) == [k \in 1..Len(ts) |-> [ts[k] EXCEPT !.id = k]]

\* buildTaskQueue with the test of NoPrune inverted
buildTaskQueuePruneInverted(is, ids) ==
    Numbered(
        << Task("ApplyTask", InitEvent, is, << >>, ""),
           Task("SendEventTask", ApplyCompletedEvent, << >>, << >>, "") >>
        \o (IF wait
              THEN << Task("WaitTask", InitEvent, << >>, ids, "AllCurrent"),
                      Task("SendEventTask", StatusCompletedEvent, << >>, << >>, "") >>
              ELSE << >>)
        \o (IF NoPrune
              THEN << Task("PruneTask", InitEvent, is, << >>, ""),
                      Task("SendEventTask", PruneCompletedEvent, << >>, << >>, "") >>
              ELSE << >>))

buildTaskQueue(is, ids) ==
    Numbered(
        << Task("ApplyTask", InitEvent, is, << >>, ""),
           Task("SendEventTask", ApplyCompletedEvent, << >>, << >>, "") >>
        \o (IF wait
              THEN << Task("WaitTask", InitEvent, << >>, ids, "AllCurrent"),
                      Task("SendEventTask", StatusCompletedEvent, << >>, << >>, "") >>
              ELSE << >>)
        \o (IF ~NoPrune
              THEN << Task("PruneTask", InitEvent, is, << >>, ""),
                      Task("SendEventTask", PruneCompletedEvent, << >>, << >>, "") >>
              ELSE << >>))

TaskIds == 1..6

TaskOf(id) == buildTaskQueue(infos, identifiers)[id]

\* how many results task id has sent so far, received by the loop or not
ResultsFrom(id) ==
    Cardinality({m \in taskChannel : m.from = id})
    + Cardinality({k \in 1..Len(received) : received[k].from = id})

\* A TaskResult as the channel carries it.  The channel holds values, not a
\* set of them: n tells a second result of a task from its first.
TaskResult(id, err) == [from |-> id, Err |-> err, n |-> ResultsFrom(id)]

-----------------------------------------------------------------------------
(* Status collector *)

newResourceStatusCollector(ids) == [k \in 1..Len(ids) |-> "Unknown"]

IndexOf(ids, id) ==
    IF \E k \in 1..Len(ids) : ids[k] = id
      THEN CHOOSE k \in 1..Len(ids) : ids[k] = id
      ELSE 0

resourceStatus(coll, id, st) ==
    LET k == IndexOf(identifiers, id) IN
    IF k = 0 THEN coll ELSE [coll EXCEPT ![k] = st]

statusOf(coll, id) ==
    LET k == IndexOf(identifiers, id) IN
    IF k = 0 THEN "Unknown" ELSE coll[k]

conditionMet(coll, ids, cond) ==
    \A k \in 1..Len(ids) :
        statusOf(coll, ids[k]) = (IF cond = "AllCurrent" THEN "Current" ELSE "NotFound")

-----------------------------------------------------------------------------
(* Wait task *)

\* WaitTask.complete: post an error-free result if the token can be taken.
complete(task, tok, ch) ==
    IF tok
      THEN [token |-> FALSE, taskChannel |-> ch \cup {TaskResult(task.id, Nil)}, took |-> TRUE]
      ELSE [token |-> tok, taskChannel |-> ch, took |-> FALSE]

completeIfWaitTaskSkipped(task, tok, ch) ==
    [token |-> tok, taskChannel |-> ch, took |-> FALSE]

\* completeIfWaitTask whose complete does not ask for the token
completeIfWaitTaskNoToken(task, tok, ch) ==
    IF task.kind = "WaitTask"
      THEN [token |-> FALSE, taskChannel |-> ch \cup {TaskResult(task.id, Nil)},
            took |-> TRUE]
      ELSE [token |-> tok, taskChannel |-> ch, took |-> FALSE]

completeIfWaitTask(task, tok, ch) ==
    IF task.kind = "WaitTask"
      THEN complete(task, tok, ch)
      ELSE [token |-> tok, taskChannel |-> ch, took |-> FALSE]

\* WaitTask.ClearTimeout / the no-op ClearTimeout of the other tasks.
ClearTimeout(task, tm) ==
    IF task.kind = "WaitTask" /\ tm = "armed" THEN "stopped" ELSE tm

-----------------------------------------------------------------------------
(* PollerEngine.Poll as the engine's test drives it: fakeStatusReader and    *)
(* fakeAggregator, a consumer that ranges over the returned channel.         *)

Deployment(n, ns) == [Kind |-> "Deployment", Name |-> n, Namespace |-> ns]
Service(n, ns) == [Kind |-> "Service", Name |-> n, Namespace |-> ns]

\* the identifiers of the test cases: none, one resource, two resources
TestIdentifiers ==
    { << >>,
      << Deployment("foo", "bar") >>,
      << Deployment("foo", "default"), Service("bar", "default") >> }

RECURSIVE SeqsUpTo(_, _)
SeqsUpTo(S, n) ==
    IF n = 0 THEN {<< >>}
    ELSE LET shorter == SeqsUpTo(S, n - 1) IN
         shorter \cup {Append(q, x) : q \in shorter, x \in S}

\* the lists of statuses a reader may be scripted with for one kind
Scripts == SeqsUpTo(PollStatuses, MaxScript) \ {<< >>}

KindsOf(ids) == {ids[k].Kind : k \in 1..Len(ids)}

\* ReadStatus that does not advance the count of the kind
ReadStatusNoCount(scripts, counts, identifier) ==
    LET count == counts[identifier.Kind]
        resourceStatusSlice == scripts[identifier.Kind]
    IN
    [Identifier |-> identifier,
     Status |-> IF Len(resourceStatusSlice) > count
                  THEN resourceStatusSlice[count + 1]
                  ELSE resourceStatusSlice[Len(resourceStatusSlice)],
     counts |-> counts]

\* fakeStatusReader.ReadStatus: the scripted status number count, or the last
\* one when the script is exhausted; the count of the kind goes up by one
ReadStatus(scripts, counts, identifier) ==
    LET count == counts[identifier.Kind]
        resourceStatusSlice == scripts[identifier.Kind]
    IN
    [Identifier |-> identifier,
     Status |-> IF Len(resourceStatusSlice) > count
                  THEN resourceStatusSlice[count + 1]
                  ELSE resourceStatusSlice[Len(resourceStatusSlice)],
     counts |-> [counts EXCEPT ![identifier.Kind] = count + 1]]

newFakeAggregator(ids) == [k \in 1..Len(ids) |-> "Unknown"]

\* fakeAggregator.ResourceStatus
AggregatorResourceStatus(sts, ids, rs) ==
    [k \in 1..Len(ids) |-> IF ids[k] = rs.Identifier THEN rs.Status ELSE sts[k]]

AggregateStatus(sts) ==
    IF \E k \in DOMAIN sts : sts[k] # "Current" THEN "InProgress" ELSE "Current"

\* Completed that is satisfied by one Current resource
CompletedIfAnyCurrent(sts) == \E k \in DOMAIN sts : sts[k] = "Current"

Completed(sts) == AggregateStatus(sts) = "Current"

\* the engine is not part of a run of the applier
EngineIdle ==
    /\ ppc = "off"
    /\ pollIdentifiers = << >>
    /\ pollUntilCancelled = TRUE
    /\ pollCtxCancelled = FALSE
    /\ resourceStatuses = << >>
    /\ resourceStatusCount = << >>
    /\ statuses = << >>
    /\ previous = << >>
    /\ visit = 1
    /\ cycles = 0
    /\ pollStream = << >>
    /\ visits = << >>

engVars == << ppc, pollIdentifiers, pollUntilCancelled, pollCtxCancelled,
              resourceStatuses, resourceStatusCount, statuses, previous, visit,
              cycles, pollStream, visits >>

-----------------------------------------------------------------------------
(* prune.ObjMetadata and its text form namespace_name_group_kind.  A string  *)
(* is a sequence of characters.                                              *)

fieldSeparator == "_"

\* the characters of the model: a letter, the separator, a blank
Alphabet == {"a", fieldSeparator, " "}

IsSpace(c) == c \in {" ", "\t", "\n"}

RECURSIVE StringsUpTo(_)
StringsUpTo(n) ==
    IF n = 0 THEN {<< >>}
    ELSE LET shorter == StringsUpTo(n - 1) IN
         shorter \cup {Append(q, c) : q \in shorter, c \in Alphabet}

\* the groups and kinds of the model: empty or set
GroupKindFields == {<< >>, << "a" >>}

RECURSIVE TrimLeft(_)
TrimLeft(q) == IF q # << >> /\ IsSpace(Head(q)) THEN TrimLeft(Tail(q)) ELSE q

RECURSIVE TrimRight(_)
TrimRight(q) ==
    IF q # << >> /\ IsSpace(q[Len(q)]) THEN TrimRight(SubSeq(q, 1, Len(q) - 1)) ELSE q

\* strings.TrimSpace
TrimSpace(q) == TrimRight(TrimLeft(q))

\* strings.Split(q, sep)
RECURSIVE Split(_, _)
Split(q, sep) ==
    IF \A k \in 1..Len(q) : q[k] # sep
      THEN << q >>
      ELSE LET k == CHOOSE i \in 1..Len(q) : q[i] = sep /\ \A j \in 1..(i - 1) : q[j] # sep
           IN << SubSeq(q, 1, k - 1) >> \o Split(SubSeq(q, k + 1, Len(q)), sep)

GroupKind(g, k) == [Group |-> g, Kind |-> k]

\* schema.GroupKind.Empty
Empty(gk) == gk.Group = << >> /\ gk.Kind = << >>

NoObj == [Namespace |-> << >>, Name |-> << >>, GroupKind |-> GroupKind(<< >>, << >>)]

\* createObjMetadata: the name may not be empty after trimming, nor the GroupKind
createObjMetadata(namespace, name, gk) ==
    LET n == TrimSpace(name) IN
    IF n = << >> THEN [obj |-> NoObj, err |-> "empty name"]
    ELSE IF Empty(gk) THEN [obj |-> NoObj, err |-> "empty GroupKind"]
    ELSE [obj |-> [Namespace |-> TrimSpace(namespace), Name |-> n, GroupKind |-> gk],
          err |-> ""]

\* ObjMetadata.String
String(o) ==
    o.Namespace \o << fieldSeparator >> \o o.Name \o << fieldSeparator >>
    \o o.GroupKind.Group \o << fieldSeparator >> \o o.GroupKind.Kind

\* parseObjMetadata: exactly four fields, each trimmed
parseObjMetadata(inv) ==
    LET parts == Split(inv, fieldSeparator) IN
    IF Len(parts) = 4
      THEN createObjMetadata(parts[1], parts[2],
                             GroupKind(TrimSpace(parts[3]), TrimSpace(parts[4])))
      ELSE [obj |-> NoObj, err |-> "unable to decode inventory"]

\* ObjMetadata.Equals
Equals(a, b) ==
    /\ a.Namespace = b.Namespace
    /\ a.Name = b.Name
    /\ a.GroupKind = b.GroupKind

NoResult == [obj |-> NoObj, err |-> ""]

\* no identifier is converted in a run of the applier or of the engine
IdIdle ==
    /\ idpc = "off"
    /\ idIn = [namespace |-> << >>, name |-> << >>, gk |-> GroupKind(<< >>, << >>)]
    /\ idObj = NoResult
    /\ idStr = << >>
    /\ idParsed = NoResult
    /\ idShort = NoResult

idVars == << idpc, idIn, idObj, idStr, idParsed, idShort >>

-----------------------------------------------------------------------------
(* Initial state: Applier.Run has been called, its goroutine has not run. *)

Init ==
    /\ wait \in BOOLEAN
    /\ NoPrune \in BOOLEAN
    /\ getObjectsErr \in {Nil, readError}
    /\ objects \in (IF getObjectsErr = Nil THEN Inputs ELSE {<< >>})
    /\ groupingObjErr \in {Nil, groupingObjError}
    \* nothing after readAndPrepareObjects looks at the scope of a resource:
    \* the list of mixed scopes is run as an apply without wait and prune
    /\ objects = MixedScopes => ~wait /\ NoPrune
    /\ ctxCancelled = FALSE
    /\ apc = "read"
    /\ infos = << >>
    /\ identifiers = << >>
    /\ taskQueue = << >>
    /\ eventChannel = << >>
    /\ closed = 0
    /\ sentOnClosed = FALSE
    /\ currentTask = NoTask
    /\ abort = FALSE
    /\ abortReason = Nil
    /\ doneCh = "ctx"
    /\ runErr = Nil
    /\ collector = << >>
    /\ taskChannel = {}
    /\ statusEvent = NoObservation
    /\ wst = [i \in TaskIds |-> "idle"]
    /\ applied = 0
    /\ pruned = 0
    /\ token = TRUE
    /\ timer = "none"
    /\ pst = "idle"
    /\ pollPos = 1
    /\ polls = 0
    /\ closedReads = FALSE
    /\ statusCtxCancelled = FALSE
    /\ started = << >>
    /\ received = << >>
    /\ tokenTaker = "none"
    /\ cancelInWait = FALSE
    /\ observed = << >>
    /\ pollErrInWait = FALSE
    /\ metInWait = FALSE
    /\ metBeforeTimeout = FALSE
    /\ EngineIdle
    /\ IdIdle

\* groups of variables, for the UNCHANGED clauses
inputVars == << wait, NoPrune, objects, getObjectsErr, groupingObjErr >>
prepVars == << infos, identifiers >>
loopVars == << currentTask, abort, abortReason, doneCh, collector >>
waitVars == << token, timer, tokenTaker >>
workVars == << wst, applied, pruned >>
pollVars == << pst, pollPos, polls >>
histVars == << started, received >>
flagVars == << cancelInWait, observed, pollErrInWait, metInWait, metBeforeTimeout >>

\* a send on the output channel; the consumer of Applier.Run is always receiving
Send(ev) ==
    /\ eventChannel' = Append(eventChannel, ev)
    /\ sentOnClosed' = (sentOnClosed \/ closed > 0)

Posted(id) == \E m \in taskChannel : m.from = id

InFlight(id) == wst[id] = "running" /\ ~Posted(id)

-----------------------------------------------------------------------------
(* Applier.Run, before the runner *)

ReadAndPrepare ==
    /\ apc = "read"
    /\ LET r == readAndPrepareObjects(objects, getObjectsErr, groupingObjErr) IN
       IF r.err # Nil
         THEN /\ Send(ErrorEvent(WrapPrefix(r.err, "error reading resources")))
              /\ apc' = "closing"
              /\ UNCHANGED infos
         ELSE /\ infos' = r.infos
              /\ apc' = "build"
              /\ UNCHANGED << eventChannel, sentOnClosed >>
    /\ UNCHANGED << idVars, engVars, inputVars, statusEvent, ctxCancelled, identifiers, taskQueue, closed,
                    loopVars, runErr, taskChannel, waitVars, workVars, pollVars,
                    closedReads, statusCtxCancelled, histVars, flagVars >>

\* BuildAndInit that does not announce the resources
BuildAndInitNoInit ==
    /\ apc = "build"
    /\ identifiers' = infosToObjMetas(infos)
    /\ taskQueue' = buildTaskQueue(infos, identifiers')
    /\ apc' = "start"
    /\ UNCHANGED << idVars, engVars, inputVars, statusEvent, ctxCancelled, infos, eventChannel, sentOnClosed, closed, loopVars, runErr,
                    taskChannel, waitVars, workVars, pollVars, closedReads,
                    statusCtxCancelled, histVars, flagVars >>

BuildAndInit ==
    /\ apc = "build"
    /\ identifiers' = infosToObjMetas(infos)
    /\ taskQueue' = buildTaskQueue(infos, identifiers')
    /\ Send(InitEvent)
    /\ apc' = "start"
    /\ UNCHANGED << idVars, engVars, inputVars, statusEvent, ctxCancelled, infos, closed, loopVars, runErr,
                    taskChannel, waitVars, workVars, pollVars, closedReads,
                    statusCtxCancelled, histVars, flagVars >>

-----------------------------------------------------------------------------
(* baseRunner *)

\* nextTask: take the next task from the queue and start it.  The result
\* holds the new values of everything Start / startAndComplete change.
\* nextTask that starts the head of the queue and leaves it in the queue
nextTaskKeepsHead(q, coll, tok, tm, ch) ==
    IF q = << >>
      THEN [tsk |-> NoTask, done |-> TRUE, taskQueue |-> q, token |-> tok,
            timer |-> tm, taskChannel |-> ch, took |-> FALSE]
      ELSE LET t == Head(q) IN
           IF t.kind = "WaitTask"
             THEN IF conditionMet(coll, t.Identifiers, t.Condition)
                    THEN LET c == complete(t, tok, ch) IN
                         [tsk |-> t, done |-> FALSE, taskQueue |-> q,
                          token |-> c.token, timer |-> "none",
                          taskChannel |-> c.taskChannel, took |-> c.took]
                    ELSE [tsk |-> t, done |-> FALSE, taskQueue |-> q,
                          token |-> tok, timer |-> "armed", taskChannel |-> ch,
                          took |-> FALSE]
             ELSE [tsk |-> t, done |-> FALSE, taskQueue |-> q,
                   token |-> tok, timer |-> tm, taskChannel |-> ch,
                   took |-> FALSE]

\* nextTask that starts a wait task without looking at the collector
nextTaskAlwaysStart(q, coll, tok, tm, ch) ==
    IF q = << >>
      THEN [tsk |-> NoTask, done |-> TRUE, taskQueue |-> q, token |-> tok,
            timer |-> tm, taskChannel |-> ch, took |-> FALSE]
      ELSE LET t == Head(q) IN
           [tsk |-> t, done |-> FALSE, taskQueue |-> Tail(q), token |-> tok,
            timer |-> IF t.kind = "WaitTask" THEN "armed" ELSE tm,
            taskChannel |-> ch, took |-> FALSE]

nextTask(q, coll, tok, tm, ch) ==
    IF q = << >>
      THEN [tsk |-> NoTask, done |-> TRUE, taskQueue |-> q, token |-> tok,
            timer |-> tm, taskChannel |-> ch, took |-> FALSE]
      ELSE LET t == Head(q) IN
           IF t.kind = "WaitTask"
             THEN IF conditionMet(coll, t.Identifiers, t.Condition)
                    THEN LET c == complete(t, tok, ch) IN
                         [tsk |-> t, done |-> FALSE, taskQueue |-> Tail(q),
                          token |-> c.token, timer |-> "none",
                          taskChannel |-> c.taskChannel, took |-> c.took]
                    ELSE [tsk |-> t, done |-> FALSE, taskQueue |-> Tail(q),
                          token |-> tok, timer |-> "armed", taskChannel |-> ch,
                          took |-> FALSE]
             ELSE [tsk |-> t, done |-> FALSE, taskQueue |-> Tail(q),
                   token |-> tok, timer |-> tm, taskChannel |-> ch,
                   took |-> FALSE]

\* Return that leaves the poller's context alone
ReturnNoCancel(err) ==
    /\ runErr' = err
    /\ apc' = "drain"
    /\ UNCHANGED statusCtxCancelled

\* run returns err.  taskStatusRunner.Run then cancels the poller's context
\* and drains the status channel; taskRunner.Run, which passed a nil status
\* channel, returns err at once.
Return(err) ==
    /\ runErr' = err
    /\ IF pst = "nil"
         THEN apc' = "returned" /\ UNCHANGED statusCtxCancelled
         ELSE apc' = "drain" /\ statusCtxCancelled' = TRUE

\* the effects of nextTask on the state, and the return when the queue is empty
Advance(n, w) ==
    /\ taskQueue' = n.taskQueue
    /\ token' = n.token
    /\ timer' = n.timer
    /\ taskChannel' = n.taskChannel
    /\ tokenTaker' = IF n.took THEN "start" ELSE tokenTaker
    /\ IF n.done
         THEN /\ Return(Nil)
              /\ wst' = w
              /\ UNCHANGED << currentTask, started >>
         ELSE /\ currentTask' = n.tsk
              /\ started' = Append(started, n.tsk.id)
              /\ wst' = [w EXCEPT ![n.tsk.id] = "running"]
              /\ apc' = "select"
              /\ UNCHANGED << runErr, statusCtxCancelled >>

\* baseRunner.run up to its loop: the first task is started, or run returns
\* nil when the queue is empty.  coll is the collector of the runner.
runFirstTask(coll) ==
    Advance(nextTask(taskQueue, coll, token, timer, taskChannel), wst)

\* RunStart with a check of ctx before the first task is started
RunStartChecksCtx ==
    /\ apc = "start"
    /\ pst = "idle"
    /\ collector' = newResourceStatusCollector(identifiers)
    /\ pst' = "polling"
    /\ IF ctxCancelled
         THEN /\ Return(Nil)
              /\ UNCHANGED << taskQueue, token, timer, taskChannel, tokenTaker,
                              wst, currentTask, started >>
         ELSE runFirstTask(collector')
    /\ UNCHANGED << idVars, engVars, inputVars, statusEvent, ctxCancelled, prepVars, eventChannel, closed,
                    sentOnClosed, abort, abortReason, doneCh, applied, pruned,
                    pollPos, polls, closedReads, received, flagVars >>

RunStart ==
    /\ apc = "start"
    /\ pst = "idle"
    /\ collector' = newResourceStatusCollector(identifiers)
    /\ pst' = "polling"
    /\ runFirstTask(collector')
    /\ UNCHANGED << idVars, engVars, inputVars, statusEvent, ctxCancelled, prepVars, eventChannel, closed,
                    sentOnClosed, abort, abortReason, doneCh, applied, pruned,
                    pollPos, polls, closedReads, received, flagVars >>

\* what the poller is ready to send on the status channel
PollerOffers ==
    IF pst # "polling" THEN {}
    ELSE IF statusCtxCancelled THEN {PollAborted}
    ELSE IF polls < MaxPolls
      THEN {ResourceUpdate(identifiers[pollPos], st) : st \in PollStatuses}
           \cup {PollError}
      ELSE {}

\* the poller after ev has been taken from the status channel
PollerSent(ev) ==
    /\ pst' = IF ev.EventType \in {"ErrorEvent", "AbortedEvent"} THEN "stopping" ELSE pst
    /\ pollPos' = IF ev.EventType = "ResourceUpdateEvent"
                    THEN (pollPos % Len(identifiers)) + 1
                    ELSE pollPos
    /\ polls' = IF ev.EventType = "AbortedEvent" THEN polls ELSE polls + 1

\* RunnerStatusCase that sets abort on an error and does not store the reason
RunnerStatusCaseShadowsReason ==
    /\ apc = "select"
    /\ IF pst = "closed"
         THEN \* !ok: continue
              /\ closedReads' = TRUE
              /\ UNCHANGED << pollVars, abort, abortReason, collector, token,
                              tokenTaker, taskChannel, eventChannel, sentOnClosed,
                              flagVars, apc, statusEvent >>
         ELSE \E ev \in PollerOffers :
              /\ PollerSent(ev)
              /\ UNCHANGED closedReads
              /\ observed' = IF abort THEN observed
                              ELSE Append(observed, ev)
              /\ IF abort
                   THEN UNCHANGED << abort, abortReason, collector, token,
                                     tokenTaker, taskChannel, eventChannel,
                                     sentOnClosed, cancelInWait, pollErrInWait,
                                     metInWait, metBeforeTimeout >>
                   ELSE IF ev.EventType = "ErrorEvent"
                     THEN LET c == completeIfWaitTask(currentTask, token, taskChannel) IN
                          /\ abort' = TRUE
                          /\ abortReason' = abortReason
                          /\ token' = c.token
                          /\ taskChannel' = c.taskChannel
                          /\ tokenTaker' = IF c.took THEN "abort" ELSE tokenTaker
                          /\ pollErrInWait' = (currentTask.kind = "WaitTask")
                          /\ UNCHANGED << collector, eventChannel, sentOnClosed,
                                          cancelInWait, metInWait, metBeforeTimeout >>
                     ELSE \* the loop goes on to eventChannel <- event.Event{...}
                          UNCHANGED << abort, abortReason, collector, token,
                                       tokenTaker, taskChannel, eventChannel,
                                       sentOnClosed, cancelInWait, pollErrInWait,
                                       metInWait, metBeforeTimeout >>
              /\ statusEvent' = IF ~abort /\ ev.EventType # "ErrorEvent"
                                  THEN ev ELSE statusEvent
              /\ apc' = IF ~abort /\ ev.EventType # "ErrorEvent"
                          THEN "send" ELSE apc
    /\ UNCHANGED << idVars, engVars, inputVars, ctxCancelled, prepVars, taskQueue, closed,
                    currentTask, doneCh, runErr, workVars, timer,
                    statusCtxCancelled, histVars >>

\* RunnerStatusCase that does not test abort before forwarding the observation
RunnerStatusCaseForwardsAborted ==
    /\ apc = "select"
    /\ IF pst = "closed"
         THEN \* !ok: continue
              /\ closedReads' = TRUE
              /\ UNCHANGED << pollVars, abort, abortReason, collector, token,
                              tokenTaker, taskChannel, eventChannel, sentOnClosed,
                              flagVars, apc, statusEvent >>
         ELSE \E ev \in PollerOffers :
              /\ PollerSent(ev)
              /\ UNCHANGED closedReads
              /\ observed' = IF abort THEN observed
                              ELSE Append(observed, ev)
              /\ IF abort
                   THEN UNCHANGED << abort, abortReason, collector, token,
                                     tokenTaker, taskChannel, eventChannel,
                                     sentOnClosed, cancelInWait, pollErrInWait,
                                     metInWait, metBeforeTimeout >>
                   ELSE IF ev.EventType = "ErrorEvent"
                     THEN LET c == completeIfWaitTask(currentTask, token, taskChannel) IN
                          /\ abort' = TRUE
                          /\ abortReason' = pollingFailed(ev.Error)
                          /\ token' = c.token
                          /\ taskChannel' = c.taskChannel
                          /\ tokenTaker' = IF c.took THEN "abort" ELSE tokenTaker
                          /\ pollErrInWait' = (currentTask.kind = "WaitTask")
                          /\ UNCHANGED << collector, eventChannel, sentOnClosed,
                                          cancelInWait, metInWait, metBeforeTimeout >>
                     ELSE \* the loop goes on to eventChannel <- event.Event{...}
                          UNCHANGED << abort, abortReason, collector, token,
                                       tokenTaker, taskChannel, eventChannel,
                                       sentOnClosed, cancelInWait, pollErrInWait,
                                       metInWait, metBeforeTimeout >>
              /\ statusEvent' = IF ev.EventType # "ErrorEvent"
                                  THEN ev ELSE statusEvent
              /\ apc' = IF ev.EventType # "ErrorEvent"
                          THEN "send" ELSE apc
    /\ UNCHANGED << idVars, engVars, inputVars, ctxCancelled, prepVars, taskQueue, closed,
                    currentTask, doneCh, runErr, workVars, timer,
                    statusCtxCancelled, histVars >>

\* RunnerStatusCase that sets abort on an Error and leaves the wait task alone
RunnerStatusCaseNoComplete ==
    /\ apc = "select"
    /\ IF pst = "closed"
         THEN \* !ok: continue
              /\ closedReads' = TRUE
              /\ UNCHANGED << pollVars, abort, abortReason, collector, token,
                              tokenTaker, taskChannel, eventChannel, sentOnClosed,
                              flagVars, apc, statusEvent >>
         ELSE \E ev \in PollerOffers :
              /\ PollerSent(ev)
              /\ UNCHANGED closedReads
              /\ observed' = IF abort THEN observed
                              ELSE Append(observed, ev)
              /\ IF abort
                   THEN UNCHANGED << abort, abortReason, collector, token,
                                     tokenTaker, taskChannel, eventChannel,
                                     sentOnClosed, cancelInWait, pollErrInWait,
                                     metInWait, metBeforeTimeout >>
                   ELSE IF ev.EventType = "ErrorEvent"
                     THEN LET c == [token |-> token, taskChannel |-> taskChannel,
                                    took |-> FALSE] IN
                          /\ abort' = TRUE
                          /\ abortReason' = pollingFailed(ev.Error)
                          /\ token' = c.token
                          /\ taskChannel' = c.taskChannel
                          /\ tokenTaker' = IF c.took THEN "abort" ELSE tokenTaker
                          /\ pollErrInWait' = (currentTask.kind = "WaitTask")
                          /\ UNCHANGED << collector, eventChannel, sentOnClosed,
                                          cancelInWait, metInWait, metBeforeTimeout >>
                     ELSE \* the loop goes on to eventChannel <- event.Event{...}
                          UNCHANGED << abort, abortReason, collector, token,
                                       tokenTaker, taskChannel, eventChannel,
                                       sentOnClosed, cancelInWait, pollErrInWait,
                                       metInWait, metBeforeTimeout >>
              /\ statusEvent' = IF ~abort /\ ev.EventType # "ErrorEvent"
                                  THEN ev ELSE statusEvent
              /\ apc' = IF ~abort /\ ev.EventType # "ErrorEvent"
                          THEN "send" ELSE apc
    /\ UNCHANGED << idVars, engVars, inputVars, ctxCancelled, prepVars, taskQueue, closed,
                    currentTask, doneCh, runErr, workVars, timer,
                    statusCtxCancelled, histVars >>

\* case statusEvent, ok := <-statusChannel, up to the send: the observation is
\* taken from the poller, and the loop then blocks in the send on the
\* unbuffered event channel
RunnerStatusCase ==
    /\ apc = "select"
    /\ IF pst = "closed"
         THEN \* !ok: continue
              /\ closedReads' = TRUE
              /\ UNCHANGED << pollVars, abort, abortReason, collector, token,
                              tokenTaker, taskChannel, eventChannel, sentOnClosed,
                              flagVars, apc, statusEvent >>
         ELSE \E ev \in PollerOffers :
              /\ PollerSent(ev)
              /\ UNCHANGED closedReads
              /\ observed' = IF abort THEN observed
                              ELSE Append(observed, ev)
              /\ IF abort
                   THEN UNCHANGED << abort, abortReason, collector, token,
                                     tokenTaker, taskChannel, eventChannel,
                                     sentOnClosed, cancelInWait, pollErrInWait,
                                     metInWait, metBeforeTimeout >>
                   ELSE IF ev.EventType = "ErrorEvent"
                     THEN LET c == completeIfWaitTask(currentTask, token, taskChannel) IN
                          /\ abort' = TRUE
                          /\ abortReason' = pollingFailed(ev.Error)
                          /\ token' = c.token
                          /\ taskChannel' = c.taskChannel
                          /\ tokenTaker' = IF c.took THEN "abort" ELSE tokenTaker
                          /\ pollErrInWait' = (currentTask.kind = "WaitTask")
                          /\ UNCHANGED << collector, eventChannel, sentOnClosed,
                                          cancelInWait, metInWait, metBeforeTimeout >>
                     ELSE \* the loop goes on to eventChannel <- event.Event{...}
                          UNCHANGED << abort, abortReason, collector, token,
                                       tokenTaker, taskChannel, eventChannel,
                                       sentOnClosed, cancelInWait, pollErrInWait,
                                       metInWait, metBeforeTimeout >>
              /\ statusEvent' = IF ~abort /\ ev.EventType # "ErrorEvent"
                                  THEN ev ELSE statusEvent
              /\ apc' = IF ~abort /\ ev.EventType # "ErrorEvent"
                          THEN "send" ELSE apc
    /\ UNCHANGED << idVars, engVars, inputVars, ctxCancelled, prepVars, taskQueue, closed,
                    currentTask, doneCh, runErr, workVars, timer,
                    statusCtxCancelled, histVars >>

\* eventChannel <- event.Event{...}: the consumer takes the Status event and
\* the loop is released
RunnerStatusSend ==
    /\ apc = "send"
    /\ Send(StatusEvent(statusEvent))
    /\ apc' = "forward"
    /\ UNCHANGED << idVars, engVars, inputVars, statusEvent, ctxCancelled, prepVars,
                    taskQueue, closed, currentTask, abort, abortReason, doneCh,
                    runErr, collector, taskChannel, workVars, token, tokenTaker,
                    timer, pollVars, closedReads, statusCtxCancelled, histVars,
                    flagVars >>

\* the status case after the send: collector.resourceStatus, then the check of
\* the wait condition
RunnerStatusUpdate ==
    /\ apc = "forward"
    /\ LET coll == resourceStatus(collector, statusEvent.Identifier, statusEvent.Status)
           met == /\ currentTask.kind = "WaitTask"
                  /\ conditionMet(coll, currentTask.Identifiers, currentTask.Condition)
           c == IF met
                  THEN completeIfWaitTask(currentTask, token, taskChannel)
                  ELSE [token |-> token, taskChannel |-> taskChannel, took |-> FALSE]
       IN
       /\ collector' = coll
       /\ token' = c.token
       /\ taskChannel' = c.taskChannel
       /\ tokenTaker' = IF c.took THEN "condition" ELSE tokenTaker
       /\ metInWait' = (metInWait \/ met)
       /\ metBeforeTimeout' = (metBeforeTimeout \/ (met /\ tokenTaker # "timer"))
    /\ statusEvent' = NoObservation
    /\ apc' = "select"
    /\ UNCHANGED << idVars, engVars, inputVars, ctxCancelled, prepVars, taskQueue,
                    eventChannel, sentOnClosed, closed, currentTask, abort,
                    abortReason, doneCh, runErr, workVars, timer, pollVars,
                    closedReads, statusCtxCancelled, histVars, cancelInWait,
                    observed, pollErrInWait >>

\* RunnerTaskCase that does not look at msg.Err
RunnerTaskCaseIgnoresErr ==
    /\ apc = "select"
    /\ \E msg \in taskChannel :
         LET tm1 == ClearTimeout(currentTask, timer)
             ch1 == taskChannel \ {msg}
             w1  == [wst EXCEPT ![msg.from] = "done"]
         IN
         /\ received' = Append(received, msg)
         /\ IF abort
              THEN /\ Return(abortReason)
                   /\ timer' = tm1
                   /\ taskChannel' = ch1
                   /\ wst' = w1
                   /\ UNCHANGED << taskQueue, currentTask, token, tokenTaker, started >>
              ELSE Advance(nextTask(taskQueue, collector, token, tm1, ch1), w1)
    /\ UNCHANGED << idVars, engVars, inputVars, statusEvent, ctxCancelled, prepVars, eventChannel, closed,
                    sentOnClosed, abort, abortReason, doneCh, collector, applied,
                    pruned, pollVars, closedReads, flagVars >>

\* RunnerTaskCase that tests abort before msg.Err
RunnerTaskCaseAbortFirst ==
    /\ apc = "select"
    /\ \E msg \in taskChannel :
         LET tm1 == ClearTimeout(currentTask, timer)
             ch1 == taskChannel \ {msg}
             w1  == [wst EXCEPT ![msg.from] = "done"]
         IN
         /\ received' = Append(received, msg)
         /\ IF abort
              THEN /\ Return(abortReason)
                   /\ timer' = tm1
                   /\ taskChannel' = ch1
                   /\ wst' = w1
                   /\ UNCHANGED << taskQueue, currentTask, token, tokenTaker, started >>
              ELSE IF msg.Err # Nil
                THEN /\ Return(msg.Err)
                     /\ timer' = tm1
                     /\ taskChannel' = ch1
                     /\ wst' = w1
                     /\ UNCHANGED << taskQueue, currentTask, token, tokenTaker, started >>
                ELSE Advance(nextTask(taskQueue, collector, token, tm1, ch1), w1)
    /\ UNCHANGED << idVars, engVars, inputVars, statusEvent, ctxCancelled, prepVars, eventChannel, closed,
                    sentOnClosed, abort, abortReason, doneCh, collector, applied,
                    pruned, pollVars, closedReads, flagVars >>

\* case msg := <-taskChannel
RunnerTaskCase ==
    /\ apc = "select"
    /\ \E msg \in taskChannel :
         LET tm1 == ClearTimeout(currentTask, timer)
             ch1 == taskChannel \ {msg}
             w1  == [wst EXCEPT ![msg.from] = "done"]
         IN
         /\ received' = Append(received, msg)
         /\ IF msg.Err # Nil
              THEN /\ Return(msg.Err)
                   /\ timer' = tm1
                   /\ taskChannel' = ch1
                   /\ wst' = w1
                   /\ UNCHANGED << taskQueue, currentTask, token, tokenTaker, started >>
              ELSE IF abort
                THEN /\ Return(abortReason)
                     /\ timer' = tm1
                     /\ taskChannel' = ch1
                     /\ wst' = w1
                     /\ UNCHANGED << taskQueue, currentTask, token, tokenTaker, started >>
                ELSE Advance(nextTask(taskQueue, collector, token, tm1, ch1), w1)
    /\ UNCHANGED << idVars, engVars, inputVars, statusEvent, ctxCancelled, prepVars, eventChannel, closed,
                    sentOnClosed, abort, abortReason, doneCh, collector, applied,
                    pruned, pollVars, closedReads, flagVars >>

\* RunnerDoneCase that returns at once instead of waiting for the task
RunnerDoneCaseReturns ==
    /\ apc = "select"
    /\ doneCh = "ctx"
    /\ ctxCancelled
    /\ doneCh' = "nil"
    /\ abort' = TRUE
    /\ Return(abortReason)
    /\ UNCHANGED << idVars, engVars, inputVars, statusEvent, ctxCancelled, prepVars, taskQueue, eventChannel,
                    closed, sentOnClosed, currentTask, abortReason, collector,
                    taskChannel, waitVars, workVars, pollVars, closedReads,
                    histVars, flagVars >>

\* RunnerDoneCase that sets abort and leaves the wait task alone
RunnerDoneCaseNoComplete ==
    /\ apc = "select"
    /\ doneCh = "ctx"
    /\ ctxCancelled
    /\ doneCh' = "nil"
    /\ abort' = TRUE
    /\ UNCHANGED << idVars, engVars, inputVars, statusEvent, ctxCancelled, apc, prepVars, taskQueue,
                    eventChannel, closed, sentOnClosed, currentTask, abortReason,
                    runErr, collector, taskChannel, waitVars, workVars, pollVars,
                    closedReads, statusCtxCancelled, histVars, flagVars >>

\* case <-doneCh
RunnerDoneCase ==
    /\ apc = "select"
    /\ doneCh = "ctx"
    /\ ctxCancelled
    /\ LET c == completeIfWaitTask(currentTask, token, taskChannel) IN
       /\ doneCh' = "nil"
       /\ abort' = TRUE
       /\ token' = c.token
       /\ taskChannel' = c.taskChannel
       /\ tokenTaker' = IF c.took THEN "abort" ELSE tokenTaker
    /\ UNCHANGED << idVars, engVars, inputVars, statusEvent, ctxCancelled, apc, prepVars, taskQueue,
                    eventChannel, closed, sentOnClosed, currentTask, abortReason,
                    runErr, collector, workVars, timer, pollVars, closedReads,
                    statusCtxCancelled, histVars, flagVars >>

-----------------------------------------------------------------------------
(* Task workers *)

Running(id, kind) == wst[id] = "running" /\ ~Posted(id) /\ TaskOf(id).kind = kind

Post(id, err) == taskChannel' = taskChannel \cup {TaskResult(id, err)}

\* SendEventTask.Start: send the event, then post the result
SendEventTaskRun ==
    /\ \E id \in TaskIds :
         /\ Running(id, "SendEventTask")
         /\ Send(TaskOf(id).Event)
         /\ Post(id, Nil)
    /\ UNCHANGED << idVars, engVars, inputVars, statusEvent, ctxCancelled, apc, prepVars, taskQueue, closed,
                    loopVars, runErr, waitVars, workVars, pollVars, closedReads,
                    statusCtxCancelled, histVars, flagVars >>

\* ApplyTask: the printer adapter turns each applied object into an event
ApplyTaskItem ==
    /\ \E id \in TaskIds :
         /\ Running(id, "ApplyTask")
         /\ applied < Len(infos)
         /\ Send(ApplyItemEvent(identifiers[applied + 1]))
         /\ applied' = applied + 1
    /\ UNCHANGED << idVars, engVars, inputVars, statusEvent, ctxCancelled, apc, prepVars, taskQueue, closed,
                    loopVars, runErr, taskChannel, waitVars, wst, pruned,
                    pollVars, closedReads, statusCtxCancelled, histVars, flagVars >>

\* ApplyTask: ApplyOptions.Run returns, the result is posted
ApplyTaskFinish ==
    /\ \E id \in TaskIds, err \in {Nil, applyError} :
         /\ Running(id, "ApplyTask")
         /\ err = Nil => applied = Len(infos)
         /\ Post(id, err)
    /\ UNCHANGED << idVars, engVars, inputVars, statusEvent, ctxCancelled, apc, prepVars, taskQueue,
                    eventChannel, closed, sentOnClosed, loopVars, runErr,
                    waitVars, workVars, pollVars, closedReads,
                    statusCtxCancelled, histVars, flagVars >>

\* PruneTask: one event per pruned object
PruneTaskItem ==
    /\ \E id \in TaskIds :
         /\ Running(id, "PruneTask")
         /\ pruned < Len(PruneCandidates)
         /\ Send(PruneItemEvent(PruneCandidates[pruned + 1]))
         /\ pruned' = pruned + 1
    /\ UNCHANGED << idVars, engVars, inputVars, statusEvent, ctxCancelled, apc, prepVars, taskQueue, closed,
                    loopVars, runErr, taskChannel, waitVars, wst, applied,
                    pollVars, closedReads, statusCtxCancelled, histVars, flagVars >>

\* PruneTask: PruneOptions.Prune returns, the result is posted
PruneTaskFinish ==
    /\ \E id \in TaskIds, err \in {Nil, pruneError} :
         /\ Running(id, "PruneTask")
         /\ Post(id, err)
    /\ UNCHANGED << idVars, engVars, inputVars, statusEvent, ctxCancelled, apc, prepVars, taskQueue,
                    eventChannel, closed, sentOnClosed, loopVars, runErr,
                    waitVars, workVars, pollVars, closedReads,
                    statusCtxCancelled, histVars, flagVars >>

\* WaitTask: the timer fires; the timeout error is posted if the token is there
WaitTaskTimeout ==
    /\ timer = "armed"
    /\ timer' = "fired"
    /\ \E id \in TaskIds :
         /\ wst[id] = "running"
         /\ TaskOf(id).kind = "WaitTask"
         /\ IF token
              THEN /\ token' = FALSE
                   /\ tokenTaker' = "timer"
                   /\ Post(id, timeoutError)
              ELSE UNCHANGED << token, tokenTaker, taskChannel >>
    /\ UNCHANGED << idVars, engVars, inputVars, statusEvent, ctxCancelled, apc, prepVars, taskQueue,
                    eventChannel, closed, sentOnClosed, loopVars, runErr,
                    workVars, pollVars, closedReads, statusCtxCancelled,
                    histVars, flagVars >>

-----------------------------------------------------------------------------
(* Poller shutdown, end of Applier.Run, the caller *)

\* the poller closes the status channel after an Error or Aborted observation
PollerClose ==
    /\ pst = "stopping"
    /\ pst' = "closed"
    /\ UNCHANGED << idVars, engVars, inputVars, statusEvent, ctxCancelled, apc, prepVars, taskQueue,
                    eventChannel, closed, sentOnClosed, loopVars, runErr,
                    taskChannel, waitVars, workVars, pollPos, polls, closedReads,
                    statusCtxCancelled, histVars, flagVars >>

\* for range statusChannel { }: one observation is received and dropped
DrainStatus ==
    /\ apc = "drain"
    /\ \E ev \in PollerOffers : PollerSent(ev)
    /\ UNCHANGED << idVars, engVars, inputVars, statusEvent, ctxCancelled, apc, prepVars, taskQueue,
                    eventChannel, closed, sentOnClosed, loopVars, runErr,
                    taskChannel, waitVars, workVars, closedReads,
                    statusCtxCancelled, histVars, flagVars >>

\* the status channel is closed: Run returns err, Applier.Run reports it
ReportResult ==
    /\ apc = "drain"
    /\ pst = "closed"
    /\ IF runErr # Nil
         THEN Send(ErrorEvent(runErr))
         ELSE UNCHANGED << eventChannel, sentOnClosed >>
    /\ apc' = "closing"
    /\ UNCHANGED << idVars, engVars, inputVars, statusEvent, ctxCancelled, prepVars, taskQueue, closed,
                    loopVars, runErr, taskChannel, waitVars, workVars, pollVars,
                    closedReads, statusCtxCancelled, histVars, flagVars >>

\* defer close(eventChannel)
CloseEventChannel ==
    /\ apc = "closing"
    /\ closed' = closed + 1
    /\ apc' = "done"
    /\ UNCHANGED << idVars, engVars, inputVars, statusEvent, ctxCancelled, prepVars, taskQueue, eventChannel,
                    sentOnClosed, loopVars, runErr, taskChannel, waitVars,
                    workVars, pollVars, closedReads, statusCtxCancelled,
                    histVars, flagVars >>

StatusSeen == \E k \in 1..Len(eventChannel) : eventChannel[k].writer = "runner"

\* the caller cancels ctx while the operation is running
Cancel ==
    /\ ~ctxCancelled
    /\ apc \in {"read", "build", "start", "select", "send", "forward"}
    /\ ctxCancelled' = TRUE
    /\ cancelInWait' =
          (/\ apc \in {"select", "send", "forward"}
           /\ currentTask.kind = "WaitTask"
           /\ InFlight(currentTask.id)
           /\ StatusSeen
           /\ ~conditionMet(collector, currentTask.Identifiers, currentTask.Condition))
    /\ UNCHANGED << idVars, engVars, inputVars, statusEvent, apc, prepVars, taskQueue, eventChannel, closed,
                    sentOnClosed, loopVars, runErr, taskChannel, waitVars,
                    workVars, pollVars, closedReads, statusCtxCancelled, histVars,
                    observed, pollErrInWait, metInWait, metBeforeTimeout >>

-----------------------------------------------------------------------------

Next ==
    \/ ReadAndPrepare
    \/ BuildAndInit
    \/ RunStart
    \/ RunnerStatusCase
    \/ RunnerStatusSend
    \/ RunnerStatusUpdate
    \/ RunnerTaskCase
    \/ RunnerDoneCase
    \/ SendEventTaskRun
    \/ ApplyTaskItem
    \/ ApplyTaskFinish
    \/ PruneTaskItem
    \/ PruneTaskFinish
    \/ WaitTaskTimeout
    \/ PollerClose
    \/ DrainStatus
    \/ ReportResult
    \/ CloseEventChannel
    \/ Cancel

Spec == Init /\ [][Next]_vars

\* Scheduling: every goroutine that can take a step eventually takes one, and
\* a select case that stays ready is eventually chosen.  Nothing obliges the
\* poller to deliver observations, the timer to fire, or the caller to cancel.
Fairness ==
    /\ WF_vars(ReadAndPrepare)
    /\ WF_vars(BuildAndInit)
    /\ WF_vars(RunStart)
    /\ WF_vars(RunnerStatusSend)
    /\ WF_vars(RunnerStatusUpdate)
    /\ WF_vars(RunnerTaskCase)
    /\ WF_vars(RunnerDoneCase)
    /\ WF_vars(SendEventTaskRun)
    /\ WF_vars(ApplyTaskFinish)
    /\ WF_vars(PruneTaskFinish)
    /\ WF_vars(PollerClose)
    /\ WF_vars(DrainStatus)
    /\ WF_vars(ReportResult)
    /\ WF_vars(CloseEventChannel)

FairSpec == Spec /\ Fairness

-----------------------------------------------------------------------------
(* NewTaskRunner().Run: the loop of baseRunner.run without a poller, on a    *)
(* queue without wait tasks                                                  *)

\* taskRunner.Run has been called with a queue built from readable objects,
\* or with an empty queue
TaskRunnerInit ==
    /\ wait = FALSE
    /\ NoPrune \in BOOLEAN
    /\ objects \in { << Resource("foo"), GroupingTemplate("inv") >>,
                     << GroupingTemplate("inv") >> }
    /\ getObjectsErr = Nil
    /\ groupingObjErr = Nil
    /\ ctxCancelled = FALSE
    /\ apc = "start"
    /\ infos = readAndPrepareObjects(objects, getObjectsErr, groupingObjErr).infos
    /\ identifiers = infosToObjMetas(infos)
    /\ taskQueue \in {buildTaskQueue(infos, identifiers), << >>}
    /\ eventChannel = << >>
    /\ closed = 0
    /\ sentOnClosed = FALSE
    /\ currentTask = NoTask
    /\ abort = FALSE
    /\ abortReason = Nil
    /\ doneCh = "ctx"
    /\ runErr = Nil
    /\ collector = newResourceStatusCollector(<< >>)
    /\ taskChannel = {}
    /\ statusEvent = NoObservation
    /\ wst = [i \in TaskIds |-> "idle"]
    /\ applied = 0
    /\ pruned = 0
    /\ token = TRUE
    /\ timer = "none"
    /\ pst = "nil"
    /\ pollPos = 1
    /\ polls = 0
    /\ closedReads = FALSE
    /\ statusCtxCancelled = FALSE
    /\ started = << >>
    /\ received = << >>
    /\ tokenTaker = "none"
    /\ cancelInWait = FALSE
    /\ observed = << >>
    /\ pollErrInWait = FALSE
    /\ metInWait = FALSE
    /\ metBeforeTimeout = FALSE
    /\ EngineIdle
    /\ IdIdle

\* tr.baseRunner.run(ctx, taskQueue, nilStatusChannel, eventChannel): the
\* first task is started, or run returns nil on an empty queue
TaskRunnerRun ==
    /\ apc = "start"
    /\ pst = "nil"
    /\ runFirstTask(collector)
    /\ UNCHANGED << idVars, engVars, inputVars, statusEvent, ctxCancelled, prepVars,
                    eventChannel, closed, sentOnClosed, abort, abortReason, doneCh,
                    collector, applied, pruned, pollVars, closedReads, received,
                    flagVars >>

\* The status case is not among the steps: a receive from a nil channel never
\* proceeds.
TaskRunnerNext ==
    \/ TaskRunnerRun
    \/ RunnerTaskCase
    \/ RunnerDoneCase
    \/ SendEventTaskRun
    \/ ApplyTaskItem
    \/ ApplyTaskFinish
    \/ PruneTaskItem
    \/ PruneTaskFinish
    \/ Cancel

TaskRunnerSpec == TaskRunnerInit /\ [][TaskRunnerNext]_vars

-----------------------------------------------------------------------------
(* The polling engine on its own, as in TestStatusPollerRunner *)

appVars == << wait, NoPrune, objects, getObjectsErr, groupingObjErr,
              ctxCancelled, apc, infos, identifiers,
              taskQueue, eventChannel, closed, sentOnClosed, currentTask, abort,
              abortReason, doneCh, runErr, collector, taskChannel, statusEvent,
              wst, applied, pruned, token, timer, pst, pollPos, polls, closedReads,
              statusCtxCancelled, started, received, tokenTaker, cancelInWait,
              observed, pollErrInWait, metInWait, metBeforeTimeout >>

\* no applier takes part in a test of the engine
ApplierIdle ==
    /\ wait = FALSE /\ NoPrune = TRUE /\ objects = << >>
    /\ getObjectsErr = Nil /\ groupingObjErr = Nil
    /\ ctxCancelled = FALSE
    /\ apc = "off"
    /\ infos = << >> /\ identifiers = << >> /\ taskQueue = << >>
    /\ eventChannel = << >> /\ closed = 0 /\ sentOnClosed = FALSE
    /\ currentTask = NoTask /\ abort = FALSE /\ abortReason = Nil
    /\ doneCh = "ctx" /\ runErr = Nil /\ collector = << >> /\ taskChannel = {}
    /\ statusEvent = NoObservation
    /\ wst = [i \in TaskIds |-> "idle"]
    /\ applied = 0 /\ pruned = 0 /\ token = TRUE /\ timer = "none"
    /\ pst = "idle" /\ pollPos = 1 /\ polls = 0 /\ closedReads = FALSE
    /\ statusCtxCancelled = FALSE
    /\ started = << >> /\ received = << >> /\ tokenTaker = "none"
    /\ cancelInWait = FALSE /\ observed = << >> /\ pollErrInWait = FALSE
    /\ metInWait = FALSE /\ metBeforeTimeout = FALSE

\* engine.Poll(ctx, identifiers, options) has been called
PollInit ==
    /\ ApplierIdle
    /\ IdIdle
    /\ ppc = "select"
    /\ pollIdentifiers \in TestIdentifiers
    /\ pollUntilCancelled \in BOOLEAN
    /\ pollCtxCancelled = FALSE
    /\ resourceStatuses \in [KindsOf(pollIdentifiers) -> Scripts]
    /\ resourceStatusCount = [k \in KindsOf(pollIdentifiers) |-> 0]
    /\ statuses = newFakeAggregator(pollIdentifiers)
    /\ previous = [k \in 1..Len(pollIdentifiers) |-> "none"]
    /\ visit = 1
    /\ cycles = 0
    /\ pollStream = << >>
    /\ visits = << >>

\* case <-ticker.C: the cluster reader is synced and a poll cycle starts
EngineTick ==
    /\ ppc = "select"
    /\ cycles < MaxCycles
    /\ cycles' = cycles + 1
    /\ visit' = 1
    /\ ppc' = "poll"
    /\ UNCHANGED << idVars, appVars, pollIdentifiers, pollUntilCancelled, pollCtxCancelled,
                    resourceStatuses, resourceStatusCount, statuses, previous,
                    pollStream, visits >>

\* one identifier of the cycle: read its status, hand it to the aggregator,
\* and send a ResourceUpdate when it is not the status reported before
EngineVisit ==
    /\ ppc = "poll"
    /\ visit <= Len(pollIdentifiers)
    /\ LET rs == ReadStatus(resourceStatuses, resourceStatusCount, pollIdentifiers[visit])
           updated == previous[visit] # rs.Status
       IN
       /\ resourceStatusCount' = rs.counts
       /\ statuses' = AggregatorResourceStatus(statuses, pollIdentifiers, rs)
       /\ previous' = IF updated THEN [previous EXCEPT ![visit] = rs.Status] ELSE previous
       /\ pollStream' = IF updated
                          THEN Append(pollStream, ResourceUpdate(rs.Identifier, rs.Status))
                          ELSE pollStream
       /\ visits' = Append(visits, [Identifier |-> rs.Identifier, Status |-> rs.Status])
    /\ visit' = visit + 1
    /\ UNCHANGED << idVars, appVars, ppc, pollIdentifiers, pollUntilCancelled,
                    pollCtxCancelled, resourceStatuses, cycles >>

\* EngineCycleEnd that does not look at PollUntilCancelled
EngineCycleEndIgnoresOption ==
    /\ ppc = "poll"
    /\ visit > Len(pollIdentifiers)
    /\ ppc' = IF Completed(statuses) THEN "completed" ELSE "select"
    /\ UNCHANGED << idVars, appVars, pollIdentifiers, pollUntilCancelled, pollCtxCancelled,
                    resourceStatuses, resourceStatusCount, statuses, previous,
                    visit, cycles, pollStream, visits >>

\* every identifier has been visited: ask the aggregator
EngineCycleEnd ==
    /\ ppc = "poll"
    /\ visit > Len(pollIdentifiers)
    /\ ppc' = IF Completed(statuses) /\ ~pollUntilCancelled THEN "completed" ELSE "select"
    /\ UNCHANGED << idVars, appVars, pollIdentifiers, pollUntilCancelled, pollCtxCancelled,
                    resourceStatuses, resourceStatusCount, statuses, previous,
                    visit, cycles, pollStream, visits >>

\* the Completed event is sent and the engine returns
EngineCompleted ==
    /\ ppc = "completed"
    /\ pollStream' = Append(pollStream, PollCompleted)
    /\ ppc' = "closing"
    /\ UNCHANGED << idVars, appVars, pollIdentifiers, pollUntilCancelled, pollCtxCancelled,
                    resourceStatuses, resourceStatusCount, statuses, previous,
                    visit, cycles, visits >>

\* case <-ctx.Done(): the Aborted event is sent and the engine returns
EngineAborted ==
    /\ ppc = "select"
    /\ pollCtxCancelled
    /\ pollStream' = Append(pollStream, PollAborted)
    /\ ppc' = "closing"
    /\ UNCHANGED << idVars, appVars, pollIdentifiers, pollUntilCancelled, pollCtxCancelled,
                    resourceStatuses, resourceStatusCount, statuses, previous,
                    visit, cycles, visits >>

\* defer close(eventChannel) of the engine's goroutine
EngineClose ==
    /\ ppc = "closing"
    /\ ppc' = "closed"
    /\ UNCHANGED << idVars, appVars, pollIdentifiers, pollUntilCancelled, pollCtxCancelled,
                    resourceStatuses, resourceStatusCount, statuses, previous,
                    visit, cycles, pollStream, visits >>

\* the ctx given to Poll is cancelled (the timeout of the cancellation test)
TestCancel ==
    /\ ppc \notin {"off", "closed"}
    /\ ~pollCtxCancelled
    /\ pollCtxCancelled' = TRUE
    /\ UNCHANGED << idVars, appVars, ppc, pollIdentifiers, pollUntilCancelled,
                    resourceStatuses, resourceStatusCount, statuses, previous,
                    visit, cycles, pollStream, visits >>

PollNext ==
    \/ EngineTick
    \/ EngineVisit
    \/ EngineCycleEnd
    \/ EngineCompleted
    \/ EngineAborted
    \/ EngineClose
    \/ TestCancel

PollSpec == PollInit /\ [][PollNext]_vars

\* Scheduling of the engine's goroutine: a step it can take is taken, and the
\* cancellation case of its select, ready at every return to the select, is
\* eventually chosen.  Nothing obliges the ticker to fire or ctx to be cancelled.
PollFairness ==
    /\ WF_vars(EngineVisit)
    /\ WF_vars(EngineCycleEnd)
    /\ WF_vars(EngineCompleted)
    /\ SF_vars(EngineAborted)
    /\ WF_vars(EngineClose)

PollFairSpec == PollSpec /\ PollFairness

-----------------------------------------------------------------------------
(* The conversions of ObjMetadata on their own, as in the tests of prune *)

IdInit ==
    /\ ApplierIdle
    /\ EngineIdle
    /\ idpc = "create"
    /\ idIn \in [namespace : StringsUpTo(MaxLen), name : StringsUpTo(MaxLen),
                 gk : {GroupKind(g, k) : g \in GroupKindFields, k \in GroupKindFields}]
    /\ idObj = NoResult
    /\ idStr = << >>
    /\ idParsed = NoResult
    /\ idShort = NoResult

\* inv, err := createObjMetadata(namespace, name, gk)
IdCreate ==
    /\ idpc = "create"
    /\ idObj' = createObjMetadata(idIn.namespace, idIn.name, idIn.gk)
    /\ idpc' = IF idObj'.err = "" THEN "render" ELSE "done"
    /\ UNCHANGED << appVars, engVars, idIn, idStr, idParsed, idShort >>

\* inv.String()
IdRender ==
    /\ idpc = "render"
    /\ idStr' = String(idObj.obj)
    /\ idpc' = "parse"
    /\ UNCHANGED << appVars, engVars, idIn, idObj, idParsed, idShort >>

\* parseObjMetadata of the rendered text
IdParse ==
    /\ idpc = "parse"
    /\ idParsed' = parseObjMetadata(idStr)
    /\ idpc' = "short"
    /\ UNCHANGED << appVars, engVars, idIn, idObj, idStr, idShort >>

\* parseObjMetadata of the rendered text without its last field
IdParseShort ==
    /\ idpc = "short"
    /\ LET parts == Split(idStr, fieldSeparator) IN
       idShort' = parseObjMetadata(parts[1] \o << fieldSeparator >> \o parts[2]
                                   \o << fieldSeparator >> \o parts[3])
    /\ idpc' = "done"
    /\ UNCHANGED << appVars, engVars, idIn, idObj, idStr, idParsed >>

IdNext ==
    \/ IdCreate
    \/ IdRender
    \/ IdParse
    \/ IdParseShort

IdSpec == IdInit /\ [][IdNext]_vars

RunReturned == apc \in {"drain", "closing", "done"}

WaitInFlight == apc \in {"select", "send", "forward"} /\ currentTask.kind = "WaitTask"

Range(f) == {f[k] : k \in DOMAIN f}

Last(q) == q[Len(q)]

Built == buildTaskQueue(infos, identifiers)

IdsOfKind(kind) == {id \in 1..Len(Built) : Built[id].kind = kind}

\* every TaskResult a task has produced so far, received or not
ResultsOf(kind) == {m \in taskChannel \cup Range(received) : m.from \in IdsOfKind(kind)}

IsCompletion(e) == e \in {ApplyCompletedEvent, StatusCompletedEvent, PruneCompletedEvent}

Completions == SelectSeq(eventChannel, IsCompletion)

Planned ==
    << ApplyCompletedEvent >>
    \o (IF wait THEN << StatusCompletedEvent >> ELSE << >>)
    \o (IF ~NoPrune THEN << PruneCompletedEvent >> ELSE << >>)

LastIsError == eventChannel # << >> /\ Last(eventChannel).Type = "ErrorType"

-----------------------------------------------------------------------------
(* Claims *)

\* C1: the output channel is closed exactly once, the close comes after the
\* last event, and nothing is sent on the channel once it is closed.
C1_ClosedOnceAfterLastEvent ==
    /\ closed <= 1
    /\ ~sentOnClosed
    /\ (apc = "done") = (closed = 1)

C1_Witness == closed = 1 /\ abort /\ Len(started) >= 2 /\ StatusSeen

\* C2: a run that has ended has either emitted every planned phase-completion
\* event, or has emitted an Error event as its last event.
C2_TerminalOutcome == apc = "done" => (Completions = Planned \/ LastIsError)

\* C3: when the loop has seen the cancellation, no task has failed and no
\* poller error was recorded, run returns a non-nil error.
C3_CancelReturnsError ==
    (/\ RunReturned
     /\ doneCh = "nil"
     /\ abortReason = Nil
     /\ \A m \in Range(received) : m.Err = Nil)
    => runErr # Nil

\* C4: after ctx is cancelled while the wait task is in flight, the prune task
\* is never started and no prune event is emitted.
C4_NoPruneAfterCancelInWait ==
    cancelInWait =>
        /\ \A k \in 1..Len(started) : Built[started[k]].kind # "PruneTask"
        /\ \A k \in 1..Len(eventChannel) : eventChannel[k].Type # "PruneType"

\* C5: once ctx is cancelled while the wait task is in flight, run returns,
\* whether or not the wait condition is met or the timeout fires.
C5_CancellationLiveness == (ctxCancelled /\ WaitInFlight) ~> RunReturned

C5_Witness == cancelInWait /\ tokenTaker = "abort" /\ doneCh = "nil" /\ RunReturned

\* C6: run never returns while a started Apply, Prune or SendEvent task has not
\* delivered its result, and whenever run has returned the Apply task was
\* started first and has completed, cancelled or not.
C6_NonWaitTasksRunToCompletion ==
    RunReturned /\ identifiers # << >> =>
        /\ \A id \in 1..Len(Built) :
              Built[id].kind # "WaitTask" => wst[id] # "running"
        /\ started # << >>
        /\ Built[started[1]].kind = "ApplyTask"
        /\ wst[started[1]] = "done"

C6_Witness ==
    /\ RunReturned
    /\ doneCh = "nil"
    /\ currentTask.kind = "PruneTask"
    /\ pruned = Len(PruneCandidates)

\* a ResourceUpdate and then an Error were received and not ignored, the
\* Error while the wait task was the current task
PollErrorInWait ==
    /\ pollErrInWait
    /\ Len(observed) >= 2
    /\ Last(observed) = PollError
    /\ observed[Len(observed) - 1].EventType = "ResourceUpdateEvent"

ForwardedUpdateInWait ==
    /\ Len(observed) >= 2
    /\ StatusEvent(observed[Len(observed) - 1]) \in Range(eventChannel)

PollingFailedError ==
    [type |-> "errorString", message |-> "polling for status failed: status reader failed"]

\* C7 as stated: the update is forwarded, the Error observation is not, the
\* wait task is force-completed, StatusCompleted is never emitted, and run
\* returns the "polling for status failed" error, reported as the last event.
C7_PollErrorAsStated ==
    PollErrorInWait =>
        /\ ForwardedUpdateInWait
        /\ \A k \in 1..Len(eventChannel) : eventChannel[k].EventType # "ErrorEvent"
        /\ ~token
        /\ StatusCompletedEvent \notin Range(eventChannel)
        /\ RunReturned => runErr = PollingFailedError
        /\ apc = "done" => Last(eventChannel) = ErrorEvent(runErr)

\* C7 amended: the update is forwarded, the Error observation is not, the wait
\* task's token is taken, StatusCompleted is never emitted, and run returns the
\* polling error, or the timeout error when the timer had claimed the result;
\* the error returned is the last event of the run.
C7_PollErrorMidWait ==
    PollErrorInWait =>
        /\ ForwardedUpdateInWait
        /\ \A k \in 1..Len(eventChannel) : eventChannel[k].EventType # "ErrorEvent"
        /\ ~token
        /\ StatusCompletedEvent \notin Range(eventChannel)
        /\ RunReturned =>
              \/ runErr = PollingFailedError
              \/ tokenTaker = "timer" /\ runErr = timeoutError
        /\ apc = "done" => Last(eventChannel) = ErrorEvent(runErr)

C7_Witness ==
    /\ PollErrorInWait
    /\ apc = "done"
    /\ tokenTaker = "abort"
    /\ runErr = PollingFailedError

\* C8: a TaskResult with an error ends the run with that error; the failed
\* task is the last one started; when it is the Apply task no completion event
\* has been emitted.
C8_TaskErrorEndsRun ==
    \A k \in 1..Len(received) :
        received[k].Err # Nil =>
            /\ k = Len(received)
            /\ RunReturned
            /\ runErr = received[k].Err
            /\ Last(started) = received[k].from
            /\ Built[received[k].from].kind = "ApplyTask" =>
                  started = << received[k].from >> /\ Completions = << >>

C8_Witness ==
    /\ apc = "done"
    /\ received # << >>
    /\ Last(received).Err = applyError
    /\ wait /\ ~NoPrune

\* C9: when the wait task's timer claims the result, a timeout error is posted,
\* run returns it, StatusCompleted is not emitted and the wait task stays the
\* last task started.
C9_TimeoutReturned ==
    tokenTaker = "timer" =>
        /\ ResultsOf("WaitTask") # {}
        /\ \A m \in ResultsOf("WaitTask") : IsTimeoutError(m.Err)
        /\ Built[Last(started)].kind = "WaitTask"
        /\ StatusCompletedEvent \notin Range(eventChannel)
        /\ wst[Last(started)] = "done" =>
              RunReturned /\ runErr = timeoutError /\ IsTimeoutError(runErr)

C9_Witness == tokenTaker = "timer" /\ apc = "done" /\ IsTimeoutError(runErr)

\* C10: once the loop has evaluated the wait condition to true for the wait
\* task in flight and force-completed it, the wait task's only result carries
\* no error, whatever is observed and whenever the timer fires afterwards.
C10_MetBeforeTimeoutImpliesSuccess ==
    metBeforeTimeout =>
        /\ ~token
        /\ Cardinality(ResultsOf("WaitTask")) = 1
        /\ \A m \in ResultsOf("WaitTask") : m.Err = Nil

C10_Witness ==
    /\ metBeforeTimeout
    /\ timer = "fired"
    /\ \E id \in IdsOfKind("WaitTask") :
          /\ wst[id] = "done"
          /\ ~conditionMet(collector, Built[id].Identifiers, Built[id].Condition)

-----------------------------------------------------------------------------

\* the status events the loop has written, in order
Forwarded == SelectSeq(eventChannel, LAMBDA e : e.writer = "runner")

RunnerStarted == pst # "idle"

\* C11: whenever run has returned the poller's context is cancelled, and when
\* Run itself has returned the status channel is closed, nothing is left on
\* the task channel, no task worker is running and no timer is armed.
C11_NoLeaks ==
    /\ RunReturned /\ RunnerStarted => statusCtxCancelled
    /\ apc \in {"closing", "done"} /\ RunnerStarted =>
          /\ pst = "closed"
          /\ taskChannel = {}
          /\ \A id \in TaskIds : wst[id] # "running"
          /\ timer # "armed"

\* the run ended without error and the poller was stopped by the drain
C11_Witness ==
    /\ apc = "done"
    /\ runErr = Nil
    /\ abortReason = Nil
    /\ pst = "closed"
    /\ polls >= 1

\* C12 as stated: every event on the output channel was sent by the goroutine
\* that runs the loop.
C12_OnlyRunnerLoopWrites ==
    \A k \in 1..Len(eventChannel) : eventChannel[k].writer \in {"runner", "applier"}

\* what the worker of task t may send
SentByTask(t, e) ==
    \/ t.kind = "SendEventTask" /\ e = t.Event
    \/ t.kind = "ApplyTask" /\ e.writer = "adapter" /\ e.Type = "ApplyType"
    \/ t.kind = "PruneTask" /\ e.writer = "task" /\ e.Type = "PruneType"

\* C12 amended: an event is sent either by the goroutine that runs the loop or
\* by the worker of the current task, between its start and its result; the
\* poller sends nothing.
C12_LoopOrCurrentTaskWrites ==
    [][eventChannel' # eventChannel =>
          LET e == Last(eventChannel') IN
          \/ e.writer \in {"runner", "applier"}
          \/ /\ apc \in {"select", "send", "forward"}
             /\ InFlight(currentTask.id)
             /\ SentByTask(currentTask, e)]_vars

C12_Witness ==
    /\ \E k \in 1..Len(eventChannel) : eventChannel[k].writer = "runner"
    /\ \E k \in 1..Len(eventChannel) : eventChannel[k].writer = "adapter"
    /\ \E k \in 1..Len(eventChannel) :
          eventChannel[k].writer = "task" /\ eventChannel[k].Type = "PruneType"

IsPrefix(p, q) == Len(p) <= Len(q) /\ p = SubSeq(q, 1, Len(p))

PhaseOf(e) ==
    IF e = ApplyCompletedEvent THEN "ApplyTask"
    ELSE IF e = StatusCompletedEvent THEN "WaitTask"
    ELSE "PruneTask"

\* C13: the completion events emitted are a prefix of ApplyCompleted,
\* StatusCompleted, PruneCompleted (each at most once, in that order), and the
\* loop has received an error-free result of the phase's task for each.
C13_CompletionsInOrder ==
    /\ IsPrefix(Completions, << ApplyCompletedEvent >>
                             \o (IF wait THEN << StatusCompletedEvent >> ELSE << >>)
                             \o (IF NoPrune THEN << >> ELSE << PruneCompletedEvent >>))
    /\ \A k \in 1..Len(Completions) :
          \E r \in 1..Len(received) :
              /\ Built[received[r].from].kind = PhaseOf(Completions[k])
              /\ received[r].Err = Nil

C13_Witness == apc = "done" /\ Len(Completions) = 3 /\ StatusSeen

\* C14 as stated: the first event of every run that emits an event is Init.
C14_InitFirstAlways == eventChannel # << >> => eventChannel[1] = InitEvent

\* C14 amended: when reading the objects succeeds the first event is Init and
\* Init occurs once; when it fails the only event is the Error event.
C14_InitFirstUnlessInputError ==
    eventChannel # << >> =>
        IF readAndPrepareObjects(objects, getObjectsErr, groupingObjErr).err = Nil
          THEN /\ eventChannel[1] = InitEvent
               /\ \A k \in 2..Len(eventChannel) : eventChannel[k].Type # "InitType"
          ELSE /\ Len(eventChannel) = 1
               /\ eventChannel[1].Type = "ErrorType"

C14_Witness ==
    /\ apc = "done"
    /\ eventChannel[1] = InitEvent
    /\ Len(eventChannel) >= 3
    /\ LastIsError

\* C18: the Status events written by the loop are the non-error observations
\* it received before abort, each once and in the order received; the one the
\* loop is blocked on sending is the only one not yet written.
C18_StatusForwardedInOrder ==
    LET obs == SelectSeq(observed, LAMBDA o : o.EventType # "ErrorEvent")
        pending == IF apc = "send" THEN 1 ELSE 0
    IN /\ Len(Forwarded) + pending = Len(obs)
       /\ \A k \in 1..Len(Forwarded) : Forwarded[k] = StatusEvent(obs[k])
       /\ apc = "send" => statusEvent = obs[Len(obs)]

C18_Witness ==
    /\ abort
    /\ \E i, j \in 1..Len(Forwarded) :
          /\ i < j
          /\ Forwarded[i].Identifier = Forwarded[j].Identifier
          /\ Forwarded[i].Status = "Current"
          /\ Forwarded[j].Status = "InProgress"

-----------------------------------------------------------------------------

\* the queue has been built
QueueBuilt == apc \notin {"read", "build"} /\ infos # << >>

Shape(t) == [kind |-> t.kind, Event |-> t.Event, Objects |-> t.Objects, Condition |-> t.Condition]

ExpectedShapes ==
    << [kind |-> "ApplyTask", Event |-> InitEvent, Objects |-> infos, Condition |-> ""],
       [kind |-> "SendEventTask", Event |-> ApplyCompletedEvent, Objects |-> << >>, Condition |-> ""] >>
    \o (IF wait
          THEN << [kind |-> "WaitTask", Event |-> InitEvent, Objects |-> << >>, Condition |-> "AllCurrent"],
                  [kind |-> "SendEventTask", Event |-> StatusCompletedEvent, Objects |-> << >>, Condition |-> ""] >>
          ELSE << >>)
    \o (IF NoPrune
          THEN << >>
          ELSE << [kind |-> "PruneTask", Event |-> InitEvent, Objects |-> infos, Condition |-> ""],
                  [kind |-> "SendEventTask", Event |-> PruneCompletedEvent, Objects |-> << >>, Condition |-> ""] >>)

\* the tasks taken from the queue so far followed by the tasks left in it
QueueHistory == [k \in 1..Len(started) |-> TaskOf(started[k])] \o taskQueue

\* C15: the tasks started and the tasks left in the queue are together, in
\* order, Apply(infos, grouping object first), ApplyCompleted, then Wait and
\* StatusCompleted iff wait, then Prune and PruneCompleted iff not NoPrune;
\* nothing else, at most one Wait, and the queue only loses its head.
C15_QueueAsPlanned ==
    QueueBuilt =>
        /\ Len(QueueHistory) = Len(ExpectedShapes)
        /\ \A k \in 1..Len(QueueHistory) : Shape(QueueHistory[k]) = ExpectedShapes[k]
        /\ infos[1].grouping
        /\ \A k \in 2..Len(infos) : ~infos[k].grouping
        /\ Cardinality({k \in 1..Len(QueueHistory) : QueueHistory[k].kind = "WaitTask"}) <= 1
        /\ currentTask # NoTask => currentTask = QueueHistory[Len(started)]

C15_Witness ==
    /\ QueueBuilt
    /\ wait /\ ~NoPrune
    /\ Len(infos) = 2
    /\ Len(started) = 3
    /\ Len(taskQueue) = 3

\* C16: the identifiers of the Wait task are those of the non-grouping objects.
C16_WaitIdsExcludeGrouping ==
    QueueBuilt =>
        \A k \in 1..Len(QueueHistory) :
            QueueHistory[k].kind = "WaitTask" =>
                Range(QueueHistory[k].Identifiers)
                    = {ObjMetadata(infos[i]) : i \in {j \in 1..Len(infos) : ~infos[j].grouping}}

\* the error Run reports for an input without exactly one grouping template
GroupingError ==
    LET gots == SelectSeq(objects, LAMBDA i : i.grouping) IN
    [type |-> "goErrors",
     message |-> "error reading resources: "
                   \o (IF gots = << >> THEN "no grouping object" ELSE "multiple grouping objects"),
     Err |-> IF gots = << >>
               THEN [type |-> "NoGroupingObjError", message |-> "no grouping object"]
               ELSE [type |-> "MultipleGroupingObjError",
                     message |-> "multiple grouping objects",
                     GroupingObjectTemplates |-> gots]]

\* C17: when the objects read hold no or several grouping templates the run
\* emits the input Error event alone and ends; no queue is built, no task and
\* no poller is started.
C17_GroupingObjectUniqueness ==
    getObjectsErr = Nil /\ Len(SelectSeq(objects, LAMBDA i : i.grouping)) # 1 =>
        /\ apc \in {"read", "closing", "done"}
        /\ eventChannel = IF apc = "read" THEN << >>
                          ELSE << [Type |-> "ErrorType", EventType |-> "", Identifier |-> NoId,
                                   Status |-> "", Err |-> GroupingError, writer |-> "applier"] >>
        /\ infos = << >> /\ identifiers = << >>
        /\ taskQueue = << >>
        /\ started = << >>
        /\ currentTask = NoTask
        /\ pst = "idle"
        /\ applied = 0

C17_Witness ==
    /\ apc = "done"
    /\ closed = 1
    /\ eventChannel # << >>
    /\ eventChannel[1].Err.Err.type = "MultipleGroupingObjError"
    /\ Len(eventChannel[1].Err.Err.GroupingObjectTemplates) = 2

-----------------------------------------------------------------------------

EventTypes(q) == [k \in 1..Len(q) |-> q[k].EventType]

CountOf(q, t) == Cardinality({k \in 1..Len(q) : q[k].EventType = t})

\* C19: with PollUntilCancelled false, a Completed event is the only one and
\* the last event of the stream, is sent when every resource of the aggregator
\* is Current, follows ResourceUpdates only, and is followed by the close; a
\* stream closed without cancellation ends with it, and is Completed alone
\* when there are no identifiers.
C19_CompletedEndsStream ==
    ~pollUntilCancelled /\ ppc # "off" =>
        /\ CountOf(pollStream, "CompletedEvent") <= 1
        /\ \A k \in 1..Len(pollStream) :
              pollStream[k].EventType = "CompletedEvent" =>
                  /\ k = Len(pollStream)
                  /\ \A j \in 1..(k - 1) : pollStream[j].EventType = "ResourceUpdateEvent"
                  /\ \A i \in DOMAIN statuses : statuses[i] = "Current"
                  /\ ppc \in {"closing", "closed"}
        /\ ppc = "closed" /\ CountOf(pollStream, "AbortedEvent") = 0 =>
              /\ pollStream # << >>
              /\ Last(pollStream).EventType = "CompletedEvent"
              /\ pollIdentifiers = << >> =>
                    EventTypes(pollStream) = << "CompletedEvent" >>

\* the "multiple resources" case of the test has run to its end
C19_Witness ==
    /\ ppc = "closed"
    /\ ~pollUntilCancelled
    /\ Len(pollIdentifiers) = 2
    /\ resourceStatuses["Deployment"] = << "InProgress", "Current" >>
    /\ resourceStatuses["Service"] = << "InProgress", "InProgress", "Current" >>
    /\ EventTypes(pollStream) =
          << "ResourceUpdateEvent", "ResourceUpdateEvent", "ResourceUpdateEvent",
             "ResourceUpdateEvent", "CompletedEvent" >>

Updates(q) == SelectSeq(q, LAMBDA e : e.EventType = "ResourceUpdateEvent")

\* C20 as stated: every visit yields one ResourceUpdate on the stream.
C20_EveryVisitYieldsUpdate == ppc # "off" => Len(Updates(pollStream)) = Len(visits)

\* the visits before visit k that read the same identifier
Earlier(k) == {j \in 1..(k - 1) : visits[j].Identifier = visits[k].Identifier}

\* visit k read a status other than the one last read for its identifier
Changed(k) ==
    \/ Earlier(k) = {}
    \/ visits[CHOOSE j \in Earlier(k) : \A i \in Earlier(k) : i <= j].Status # visits[k].Status

\* the status the reader's script holds for the n-th read of a kind
Scripted(kind, n) ==
    LET script == resourceStatuses[kind] IN
    IF n <= Len(script) THEN script[n] ELSE script[Len(script)]

\* C20 amended: the identifiers are visited in input order, none more than
\* once per cycle, each visit reads the next status of the reader's script,
\* and the ResourceUpdates on the stream are those of the visits that read a
\* status other than the one last read for the identifier.
C20_ChangedVisitsYieldUpdates ==
    ppc # "off" =>
        LET n == Len(pollIdentifiers)
            changed == {k \in 1..Len(visits) : Changed(k)}
            ups == Updates(pollStream)
        IN
        /\ Len(visits) <= cycles * n
        /\ \A k \in 1..Len(visits) :
              /\ visits[k].Identifier = pollIdentifiers[((k - 1) % n) + 1]
              /\ visits[k].Status =
                    Scripted(visits[k].Identifier.Kind,
                             Cardinality({j \in 1..k : visits[j].Identifier.Kind
                                                         = visits[k].Identifier.Kind}))
        /\ Len(ups) = Cardinality(changed)
        /\ \A k \in changed :
              ups[Cardinality({j \in changed : j <= k})]
                  = ResourceUpdate(visits[k].Identifier, visits[k].Status)

\* the second cycle of the "multiple resources" case: bar is read InProgress again
C20_Witness ==
    /\ Len(pollIdentifiers) = 2
    /\ Len(visits) = 6
    /\ Len(Updates(pollStream)) = 4
    /\ visits[2].Status = "InProgress"
    /\ visits[4].Status = "InProgress"
    /\ visits[6].Status = "Current"

-----------------------------------------------------------------------------

\* C21: with PollUntilCancelled true no Completed event is ever sent, an
\* Aborted event is the last event and is followed by the close, and once ctx
\* is cancelled the stream ends with Aborted and is closed.
C21_AbortedEndsStream ==
    /\ [](pollUntilCancelled /\ ppc # "off" =>
            /\ CountOf(pollStream, "CompletedEvent") = 0
            /\ ppc # "completed"
            /\ \A k \in 1..Len(pollStream) :
                  pollStream[k].EventType = "AbortedEvent" =>
                      k = Len(pollStream) /\ ppc \in {"closing", "closed"})
    /\ (pollUntilCancelled /\ pollCtxCancelled)
          ~> (ppc = "closed" /\ Last(pollStream) = PollAborted)

\* no identifiers: the aggregator reports completion at the end of each cycle
C21_Witness ==
    /\ pollUntilCancelled
    /\ pollIdentifiers = << >>
    /\ cycles >= 1
    /\ Completed(statuses)
    /\ ppc = "closed"
    /\ pollStream = << PollAborted >>

-----------------------------------------------------------------------------

\* C22: an identifier created with a name and a kind that are not empty is
\* rendered with at least four fields, parsing the rendered text gives an
\* identifier equal to it, and parsing a text of three fields is rejected.
C22_IdentifierRoundTrip ==
    idpc = "done" /\ idObj.err = "" /\ idObj.obj.Name # << >>
                  /\ idObj.obj.GroupKind.Kind # << >> =>
        /\ Len(Split(idStr, fieldSeparator)) >= 4
        /\ idParsed.err = ""
        /\ Equals(idParsed.obj, idObj.obj)
        /\ idShort.err # ""

\* C23: every started task sends exactly one TaskResult: never a second one,
\* however often the Wait task is force-completed or its timer fires; the
\* k-th result received is the result of the k-th task started, and when
\* run returns every started task has had its one result received.
C23_OneResultPerTask ==
    /\ \A id \in TaskIds : ResultsFrom(id) <= 1
    /\ \A m \in taskChannel : m.from = Last(started)
    /\ Len(received) <= Len(started)
    /\ \A k \in 1..Len(received) : received[k].from = started[k]
    /\ Len(received) >= Len(started) - 1
    /\ RunReturned => Len(received) = Len(started)

C23_Witness ==
    /\ pollErrInWait /\ cancelInWait /\ doneCh = "nil" /\ timer = "fired"
    /\ RunReturned
    /\ \E k \in 1..Len(received) : Built[received[k].from].kind = "WaitTask"

\* C24: when the loop takes a Wait task from the queue and the collector
\* already meets its condition for all its identifiers, the task is started
\* with startAndComplete: its error-free result is posted in that very step,
\* no timer is armed and no later observation is needed.  Otherwise it is
\* started with Start: nothing is posted, the timer is armed, and the result
\* later comes from a force-completion or from the timer alone.
C24_WaitShortCircuit ==
    /\ [][started' # started /\ currentTask'.kind = "WaitTask" =>
            IF conditionMet(collector', currentTask'.Identifiers, currentTask'.Condition)
              THEN /\ \E m \in taskChannel' : m.from = currentTask'.id /\ m.Err = Nil
                   /\ ~token'
                   /\ tokenTaker' = "start"
                   /\ timer' = "none"
              ELSE /\ \A m \in taskChannel' : m.from # currentTask'.id
                   /\ token'
                   /\ tokenTaker' = tokenTaker
                   /\ timer' = "armed"]_vars
    /\ [](\A m \in ResultsOf("WaitTask") :
             /\ tokenTaker \in {"start", "condition", "abort", "timer"}
             /\ m.Err = (IF tokenTaker = "timer" THEN timeoutError ELSE Nil)
             /\ tokenTaker = "start" <=> timer = "none")

C24_Witness ==
    /\ tokenTaker = "start"
    /\ \E k \in 1..Len(received) :
          Built[received[k].from].kind = "WaitTask" /\ received[k].Err = Nil
    /\ \E k \in 1..Len(eventChannel) : eventChannel[k] = StatusCompletedEvent
    /\ ~abort

\* C25: once abort is set, an observation the loop takes from the status
\* channel is dropped: no event is written, the collector, the abort flag
\* and the abort reason stay as they are, and no wait condition is
\* evaluated, so the wait task is not completed by it.
C25_ObservationsDroppedAfterAbort ==
    [][abort /\ apc = "select" /\ pst = "polling" /\ pollVars' # pollVars =>
          /\ apc' = "select"
          /\ statusEvent' = statusEvent
          /\ eventChannel' = eventChannel
          /\ sentOnClosed' = sentOnClosed
          /\ collector' = collector
          /\ abort'
          /\ abortReason' = abortReason
          /\ metInWait' = metInWait
          /\ token' = token
          /\ tokenTaker' = tokenTaker
          /\ taskChannel' = taskChannel]_vars

C25_Witness ==
    /\ abort /\ apc = "select" /\ polls > Len(observed)
    /\ doneCh = "nil"
    /\ currentTask.kind = "WaitTask"

\* C26: when the loop receives a task result it first clears the timeout
\* of the task; a result with an error makes run return that error, also
\* when abort is set and a poller error is stored as the reason; a result
\* without error makes run return the stored reason if abort is set, and
\* only then; without error and without abort the loop goes on to the next
\* task, or returns nil when the queue is empty.
C26_TaskErrorBeforeAbortReason ==
    [][received' # received =>
          LET msg == Last(received') IN
          /\ currentTask.kind = "WaitTask" =>
                timer' = (IF timer = "armed" THEN "stopped" ELSE timer)
          /\ msg.Err # Nil => RunReturned' /\ runErr' = msg.Err
          /\ msg.Err = Nil /\ abort => RunReturned' /\ runErr' = abortReason
          /\ msg.Err = Nil /\ ~abort =>
                IF taskQueue = << >>
                  THEN RunReturned' /\ runErr' = Nil
                  ELSE ~RunReturned' /\ started' = Append(started, Head(taskQueue).id)]_vars

C26_Witness ==
    /\ RunReturned
    /\ abort /\ abortReason = PollingFailedError
    /\ received # << >> /\ Last(received).Err # Nil
    /\ runErr = Last(received).Err
    /\ runErr # abortReason

\* C27: a closed status channel does not stop the loop.  Reading it changes
\* nothing, and with fair selection among the ready cases the loop still
\* receives the result of the task in flight, with or without a pending
\* cancellation, so that run returns.
C27_ClosedStatusChannelNoBlock ==
    /\ [][apc = "select" /\ pst = "closed" /\ closedReads' # closedReads =>
             UNCHANGED << apc, runErr, loopVars, taskQueue, taskChannel, waitVars,
                          eventChannel, histVars, pollVars >>]_vars
    /\ (apc = "select" /\ pst = "closed") ~> RunReturned

C27_Witness ==
    /\ closedReads /\ RunReturned
    /\ received # << >> /\ Last(received).from = Last(started)
    /\ doneCh = "nil"

\* C28: at most one task is in flight.  The tasks are started in the order
\* of the queue, each at most once, and a task other than the first is
\* started only in the step in which the loop receives the result of the
\* task before it.
C28_OneTaskInFlight ==
    /\ [](/\ Len(started) <= Len(Built)
          /\ \A k \in 1..Len(started) : started[k] = Built[k].id
          /\ \A j, k \in 1..Len(started) : started[j] = started[k] => j = k
          /\ Cardinality({id \in TaskIds : wst[id] = "running"}) <= 1
          /\ \A k \in 1..(Len(started) - 1) : wst[started[k]] = "done"
          /\ \A id \in TaskIds : wst[id] = "running" => id = Last(started))
    /\ [][started' # started /\ started # << >> =>
             /\ wst[Last(started)] = "running"
             /\ received' = Append(received, Last(received'))
             /\ Last(received').from = Last(started)
             /\ wst'[Last(started)] = "done"]_vars

C28_Witness ==
    /\ RunReturned /\ runErr = Nil
    /\ Len(Built) >= 5
    /\ Len(started) = Len(Built)
    /\ \A id \in TaskIds : wst[id] # "running"

\* C29: once abort is set no task is started any more: the queue and the
\* current task stay as they are, and the result of the current task, when
\* it is received, makes run return.  Run returns from the loop only in the
\* step that receives a task result, so at the return every started task
\* has delivered its result and nobody is blocked on the task channel.
C29_NoStartAfterAbort ==
    /\ [][abort => UNCHANGED << started, taskQueue, currentTask >>]_vars
    /\ [][abort /\ received' # received => RunReturned']_vars
    /\ [][~RunReturned /\ RunReturned' /\ started # << >> =>
             /\ apc = "select"
             /\ received' # received
             /\ Len(received') = Len(started')]_vars
    /\ [](RunReturned => Len(received) = Len(started) /\ taskChannel = {})

C29_Witness ==
    /\ abort /\ RunReturned
    /\ taskQueue # << >>
    /\ received # << >> /\ Last(received).Err = Nil
    /\ Len(received) = Len(started)
    /\ \A id \in TaskIds : id > Last(started) => wst[id] = "idle"

====
